---------------------------- MODULE Spec2Model ----------------------------
(***************************************************************************)
(* oxlint-json-to-sarif: the parser (parseOxlintJson), the SARIF projector *)
(* (convertToSarif) and their composition, as a state machine.             *)
(*                                                                         *)
(* A JavaScript string is a sequence of one-character strings, so that     *)
(* toLowerCase, String(), Number() and pathToUri are computed character by *)
(* character.  A JavaScript value is a record [k |-> kind, v |-> payload]. *)
(***************************************************************************)
EXTENDS Integers, Sequences, FiniteSets, TLC

(***************************************************************************)
(* JavaScript values                                                       *)
(***************************************************************************)
Undef == [k |-> "undef", v |-> 0]
Null == [k |-> "null", v |-> 0]
NaN == [k |-> "nan", v |-> 0]
Num(n) == [k |-> "num", v |-> n]
Str(s) == [k |-> "str", v |-> s]
Bool(b) == [k |-> "bool", v |-> b]
Arr(s) == [k |-> "arr", v |-> s]
Obj(r) == [k |-> "obj", v |-> r]

\* x ?? y
Coalesce(x, y) == IF x.k \in {"null", "undef"} THEN y ELSE x

\* Array.isArray(x)
IsArray(x) == x.k = "arr"

\* x !== null && x !== undefined && typeof x === 'object'
IsObjectLike(x) == x.k \in {"obj", "arr"}

\* key in x, for x an object or an array decoded from JSON
HasKey(x, key) == x.k = "obj" /\ key \in DOMAIN x.v

\* x?.key : own members of decoded objects, and the length of strings and arrays
GetProp(x, key) ==
  CASE x.k = "obj" -> IF key \in DOMAIN x.v THEN x.v[key] ELSE Undef
    [] x.k \in {"arr", "str"} -> IF key = "length" THEN Num(Len(x.v)) ELSE Undef
    [] OTHER -> Undef

\* Boolean(x)
Truthy(x) ==
  CASE x.k \in {"undef", "null", "nan"} -> FALSE
    [] x.k = "num" -> x.v # 0
    [] x.k = "str" -> x.v # <<>>
    [] x.k = "bool" -> x.v
    [] OTHER -> TRUE

(***************************************************************************)
(* String(x) and Number(x)                                                 *)
(***************************************************************************)
Digits == <<"0", "1", "2", "3", "4", "5", "6", "7", "8", "9">>

DigitOf(c) == (CHOOSE i \in 1..10 : Digits[i] = c) - 1

IsDigit(c) == \E i \in 1..10 : Digits[i] = c

RECURSIVE NatToStr(_)
NatToStr(n) == IF n < 10 THEN <<Digits[n + 1]>> ELSE NatToStr(n \div 10) \o <<Digits[(n % 10) + 1]>>

IntToStr(n) == IF n < 0 THEN <<"-">> \o NatToStr(0 - n) ELSE NatToStr(n)

RECURSIVE DigitsToNat(_)
DigitsToNat(s) == IF s = <<>> THEN 0 ELSE 10 * DigitsToNat(SubSeq(s, 1, Len(s) - 1)) + DigitOf(s[Len(s)])

AllDigits(s) == s # <<>> /\ \A i \in 1..Len(s) : IsDigit(s[i])

\* StringToNumber on the strings of the model (no blanks, signs other than
\* a leading minus, fractions or exponents occur in them)
StrToNum(s) ==
  CASE s = <<>> -> Num(0)
    [] AllDigits(s) -> Num(DigitsToNat(s))
    [] Len(s) > 1 /\ s[1] = "-" /\ AllDigits(Tail(s)) -> Num(0 - DigitsToNat(Tail(s)))
    [] OTHER -> NaN

\* ToPrimitive raises TypeError on a decoded object with an own member
\* "toString" (never callable in decoded JSON; Object.prototype.valueOf
\* returns the object itself), and on an array that has to join such an object
RECURSIVE ToPrimitiveThrows(_)
ToPrimitiveThrows(x) ==
  CASE x.k = "obj" -> "toString" \in DOMAIN x.v
    [] x.k = "arr" -> \E i \in 1..Len(x.v) : ToPrimitiveThrows(x.v[i])
    [] OTHER -> FALSE

RECURSIVE ToStr(_)
RECURSIVE JoinFrom(_, _)
\* Array.prototype.join(",") from element i on
JoinFrom(a, i) ==
  IF i > Len(a) THEN <<>>
  ELSE (IF i > 1 THEN <<",">> ELSE <<>>)
       \o (IF a[i].k \in {"null", "undef"} THEN <<>> ELSE ToStr(a[i]))
       \o JoinFrom(a, i + 1)

\* String(x), where it does not raise
ToStr(x) ==
  CASE x.k = "str" -> x.v
    [] x.k = "num" -> IntToStr(x.v)
    [] x.k = "nan" -> <<"N", "a", "N">>
    [] x.k = "bool" -> IF x.v THEN <<"t", "r", "u", "e">> ELSE <<"f", "a", "l", "s", "e">>
    [] x.k = "null" -> <<"n", "u", "l", "l">>
    [] x.k = "undef" -> <<"u", "n", "d", "e", "f", "i", "n", "e", "d">>
    [] x.k = "arr" -> JoinFrom(x.v, 1)
    [] OTHER -> <<"[", "o", "b", "j", "e", "c", "t", " ", "O", "b", "j", "e", "c", "t", "]">>

\* Number(x), where it does not raise
ToNum(x) ==
  CASE x.k \in {"num", "nan"} -> x
    [] x.k = "str" -> StrToNum(x.v)
    [] x.k = "bool" -> IF x.v THEN Num(1) ELSE Num(0)
    [] x.k = "null" -> Num(0)
    [] x.k = "undef" -> NaN
    [] x.k = "arr" -> StrToNum(ToStr(x))
    [] OTHER -> NaN

\* String.prototype.toLowerCase on the letters of the model
Upper == <<"A", "B", "C", "D", "E", "F", "G", "H", "I", "J", "K", "L", "M",
           "N", "O", "P", "Q", "R", "S", "T", "U", "V", "W", "X", "Y", "Z">>
Lower == <<"a", "b", "c", "d", "e", "f", "g", "h", "i", "j", "k", "l", "m",
           "n", "o", "p", "q", "r", "s", "t", "u", "v", "w", "x", "y", "z">>

LowerChar(c) == IF \E i \in 1..26 : Upper[i] = c THEN Lower[CHOOSE i \in 1..26 : Upper[i] = c] ELSE c

ToLowerCase(s) == [i \in 1..Len(s) |-> LowerChar(s[i])]


(***************************************************************************)
(* Texts.  A text is a sequence of lexemes: JSON whitespace ("ws": space,  *)
(* tab, LF, CR), other Unicode whitespace ("uws": U+00A0, U+FEFF, ...,     *)
(* which trim() strips and the JSON grammar rejects), the structural       *)
(* characters, a member name with its colon ("key"), scalar literals and   *)
(* "bad" for any character sequence that is no JSON lexeme.                *)
(***************************************************************************)
Ws == [k |-> "ws", v |-> 0]
Uws == [k |-> "uws", v |-> 0]
LBrace == [k |-> "lbrace", v |-> 0]
RBrace == [k |-> "rbrace", v |-> 0]
LBrack == [k |-> "lbrack", v |-> 0]
RBrack == [k |-> "rbrack", v |-> 0]
Comma == [k |-> "comma", v |-> 0]
Bad == [k |-> "bad", v |-> 0]
Key(name) == [k |-> "key", v |-> name]

IsBlank(tok) == tok.k \in {"ws", "uws"}

\* jsonContent.trim() === ''
TrimIsEmpty(text) == \A i \in 1..Len(text) : IsBlank(text[i])

EmptyObject == <<>>

IsNotWs(lexeme) == lexeme.k # "ws"

\* the lexemes of a text that are not JSON whitespace
DropWs(text) == SelectSeq(text, IsNotWs)

SyntaxError == [ok |-> FALSE, val |-> Undef, next |-> 0]

ParseOk(val, next) == [ok |-> TRUE, val |-> val, next |-> next]

RECURSIVE ParseValue(_, _)
RECURSIVE ParseElements(_, _, _)
RECURSIVE ParseMembers(_, _, _)
\* the JSON grammar over the lexemes t (whitespace removed), from position i
ParseValue(t, i) ==
  IF i > Len(t) THEN SyntaxError
  ELSE CASE t[i].k \in {"str", "num", "bool", "null"} -> ParseOk(t[i], i + 1)
         [] t[i].k = "lbrack" ->
              IF i + 1 <= Len(t) /\ t[i + 1].k = "rbrack" THEN ParseOk(Arr(<<>>), i + 2)
              ELSE ParseElements(t, i + 1, <<>>)
         [] t[i].k = "lbrace" ->
              IF i + 1 <= Len(t) /\ t[i + 1].k = "rbrace" THEN ParseOk(Obj(EmptyObject), i + 2)
              ELSE ParseMembers(t, i + 1, EmptyObject)
         [] OTHER -> SyntaxError

ParseElements(t, i, acc) ==
  LET r == ParseValue(t, i) IN
  IF ~r.ok \/ r.next > Len(t) THEN SyntaxError
  ELSE CASE t[r.next].k = "rbrack" -> ParseOk(Arr(Append(acc, r.val)), r.next + 1)
         [] t[r.next].k = "comma" -> ParseElements(t, r.next + 1, Append(acc, r.val))
         [] OTHER -> SyntaxError

\* a repeated member name keeps its last value
ParseMembers(t, i, acc) ==
  IF i > Len(t) \/ t[i].k # "key" THEN SyntaxError
  ELSE LET r == ParseValue(t, i + 1) IN
       IF ~r.ok \/ r.next > Len(t) THEN SyntaxError
       ELSE CASE t[r.next].k = "rbrace" -> ParseOk(Obj((t[i].v :> r.val) @@ acc), r.next + 1)
              [] t[r.next].k = "comma" -> ParseMembers(t, r.next + 1, (t[i].v :> r.val) @@ acc)
              [] OTHER -> SyntaxError

\* JSON.parse(text): the decoded value, or ok = FALSE for a SyntaxError
JSONParse(text) ==
  LET t == DropWs(text)
      r == ParseValue(t, 1)
  IN IF r.ok /\ r.next = Len(t) + 1 THEN r ELSE SyntaxError

RECURSIVE SetToSeq(_)
SetToSeq(S) == IF S = {} THEN <<>> ELSE LET x == CHOOSE y \in S : TRUE IN <<x>> \o SetToSeq(S \ {x})

RECURSIVE Lexemes(_)
RECURSIVE ElementLexemes(_, _)
RECURSIVE MemberLexemes(_, _, _)
\* the compact JSON text of a raw value (used to write the input texts)
Lexemes(x) ==
  CASE x.k = "arr" -> <<LBrack>> \o ElementLexemes(x.v, 1) \o <<RBrack>>
    [] x.k = "obj" -> <<LBrace>> \o MemberLexemes(x.v, SetToSeq(DOMAIN x.v), 1) \o <<RBrace>>
    [] OTHER -> <<x>>

ElementLexemes(a, i) ==
  IF i > Len(a) THEN <<>>
  ELSE (IF i > 1 THEN <<Comma>> ELSE <<>>) \o Lexemes(a[i]) \o ElementLexemes(a, i + 1)

MemberLexemes(r, keys, i) ==
  IF i > Len(keys) THEN <<>>
  ELSE (IF i > 1 THEN <<Comma>> ELSE <<>>) \o <<Key(keys[i])>> \o Lexemes(r[keys[i]])
       \o MemberLexemes(r, keys, i + 1)


(***************************************************************************)
(* parser.ts                                                               *)
(***************************************************************************)
\* x?.key
OptProp(x, key) == IF x.k \in {"null", "undef"} THEN Undef ELSE GetProp(x, key)

SpanFields == {"offset", "length", "line", "column"}

\* mutation of SpanDefault: every span field defaults to 0
SpanDefaultZero(f) == Num(0)

SpanDefault(f) == IF f \in {"offset", "length"} THEN Num(0) ELSE Num(1)

\* mutation of parseLabel: a label without a span member gets no span
parseLabelSpanIfGiven(l) ==
  (IF GetProp(l, "span").k = "undef" THEN EmptyObject
   ELSE [span |-> [f \in SpanFields |-> ToNum(Coalesce(OptProp(GetProp(l, "span"), f), SpanDefault(f)))]])
    @@ [label |-> IF GetProp(l, "label").k = "str" THEN GetProp(l, "label") ELSE Undef]

parseLabel(l) ==
  [span |-> [f \in SpanFields |-> ToNum(Coalesce(OptProp(GetProp(l, "span"), f), SpanDefault(f)))],
   label |-> IF GetProp(l, "label").k = "str" THEN GetProp(l, "label") ELSE Undef]

\* parseLabel raises when Number() raises on one of the span fields
parseLabelThrows(l) == \E f \in SpanFields : ToPrimitiveThrows(OptProp(GetProp(l, "span"), f))

parseLabels(raw) ==
  IF ~IsArray(raw) THEN Undef
  ELSE LET kept == SelectSeq(raw.v, IsObjectLike)
       IN Arr([i \in 1..Len(kept) |-> parseLabel(kept[i])])

parseLabelsThrows(raw) ==
  IsArray(raw) /\ \E i \in 1..Len(raw.v) : IsObjectLike(raw.v[i]) /\ parseLabelThrows(raw.v[i])

isOxlintReport(value) ==
  IF ~Truthy(value) \/ ~IsObjectLike(value) THEN FALSE
  ELSE IsArray(GetProp(value, "diagnostics"))

\* mutation of isOxlintDiagnostic: the filename member is not required
isOxlintDiagnosticNoFilename(value) ==
  /\ Truthy(value)
  /\ IsObjectLike(value)
  /\ HasKey(value, "message")
  /\ HasKey(value, "code")
  /\ HasKey(value, "severity")

isOxlintDiagnostic(value) ==
  /\ Truthy(value)
  /\ IsObjectLike(value)
  /\ HasKey(value, "message")
  /\ HasKey(value, "code")
  /\ HasKey(value, "severity")
  /\ HasKey(value, "filename")

\* mutation of normalizeOxlintSeverity: no toLowerCase
normalizeOxlintSeverityCaseSensitive(severity) ==
  CASE severity = <<"e", "r", "r", "o", "r">> -> "error"
    [] OTHER -> "warning"

normalizeOxlintSeverity(severity) ==
  CASE ToLowerCase(severity) = <<"e", "r", "r", "o", "r">> -> "error"
    [] ToLowerCase(severity) = <<"w", "a", "r", "n", "i", "n", "g">> -> "warning"
    [] ToLowerCase(severity) = <<"w", "a", "r", "n">> -> "warning"
    [] OTHER -> "warning"

\* mutation of OptString: null is dropped like undefined
OptStringDropsNull(x) == IF x.k \in {"undef", "null"} THEN Undef ELSE Str(ToStr(x))

\* x === undefined ? undefined : String(x)
OptString(x) == IF x.k = "undef" THEN Undef ELSE Str(ToStr(x))

\* mutation of parseRelated: labels that are not a sequence become empty
parseRelatedLabelsDefaulted(r) ==
  [message |-> OptString(GetProp(r, "message")), labels |-> Coalesce(parseLabels(GetProp(r, "labels")), Arr(<<>>))]

parseRelated(r) == [message |-> OptString(GetProp(r, "message")), labels |-> parseLabels(GetProp(r, "labels"))]

parseRelatedThrows(r) == ToPrimitiveThrows(GetProp(r, "message")) \/ parseLabelsThrows(GetProp(r, "labels"))

\* String(x ?? '')
StringOrEmpty(x) == ToStr(Coalesce(x, Str(<<>>)))

\* the callback of diagnostics.map
parseDiagnostic(d) ==
  [message |-> StringOrEmpty(GetProp(d, "message")),
   code |-> StringOrEmpty(GetProp(d, "code")),
   severity |-> normalizeOxlintSeverity(ToStr(Coalesce(GetProp(d, "severity"), Str(<<"w", "a", "r", "n", "i", "n", "g">>)))),
   causes |-> IF IsArray(GetProp(d, "causes"))
              THEN [i \in 1..Len(GetProp(d, "causes").v) |-> ToStr(GetProp(d, "causes").v[i])]
              ELSE <<>>,
   url |-> OptString(GetProp(d, "url")),
   help |-> OptString(GetProp(d, "help")),
   filename |-> StringOrEmpty(GetProp(d, "filename")),
   labels |-> Coalesce(parseLabels(GetProp(d, "labels")), Arr(<<>>)).v,
   related |-> IF IsArray(GetProp(d, "related"))
               THEN LET kept == SelectSeq(GetProp(d, "related").v, IsObjectLike)
                    IN [i \in 1..Len(kept) |-> parseRelated(kept[i])]
               ELSE <<>>]

\* the callback raises when one of its String() or Number() calls raises
parseDiagnosticThrows(d) ==
  \/ \E f \in {"message", "code", "severity", "url", "help", "filename"} : ToPrimitiveThrows(GetProp(d, f))
  \/ IsArray(GetProp(d, "causes")) /\ \E i \in 1..Len(GetProp(d, "causes").v) : ToPrimitiveThrows(GetProp(d, "causes").v[i])
  \/ parseLabelsThrows(GetProp(d, "labels"))
  \/ IsArray(GetProp(d, "related"))
       /\ \E i \in 1..Len(GetProp(d, "related").v) :
            IsObjectLike(GetProp(d, "related").v[i]) /\ parseRelatedThrows(GetProp(d, "related").v[i])

NoReport == [k |-> "undef", v |-> 0]

Returned(report) == [error |-> "none", cause |-> "none", report |-> report]

Thrown(error, cause) == [error |-> error, cause |-> cause, report |-> NoReport]

\* the statements of parseOxlintJson after the shape check
normalizeReport(parsed) ==
  LET admitted == SelectSeq(GetProp(parsed, "diagnostics").v, isOxlintDiagnostic)
      metadata == {"number_of_files", "number_of_rules", "threads_count", "start_time"}
  IN IF \/ \E i \in 1..Len(admitted) : parseDiagnosticThrows(admitted[i])
        \/ \E f \in metadata : ToPrimitiveThrows(GetProp(parsed, f))
     THEN Thrown("TypeError", "none")
     ELSE Returned(
       [diagnostics |-> [i \in 1..Len(admitted) |-> parseDiagnostic(admitted[i])],
        number_of_files |-> ToNum(Coalesce(GetProp(parsed, "number_of_files"), Num(0))),
        number_of_rules |-> IF GetProp(parsed, "number_of_rules").k \in {"null", "undef"} THEN Null
                            ELSE ToNum(GetProp(parsed, "number_of_rules")),
        threads_count |-> ToNum(Coalesce(GetProp(parsed, "threads_count"), Num(1))),
        start_time |-> ToNum(Coalesce(GetProp(parsed, "start_time"), Num(0)))])

parseOxlintJson(jsonContent) ==
  IF TrimIsEmpty(jsonContent) THEN Thrown("EmptyInput", "none")
  ELSE IF ~JSONParse(jsonContent).ok THEN Thrown("MalformedJson", "SyntaxError")
  ELSE IF ~isOxlintReport(JSONParse(jsonContent).val) THEN Thrown("InvalidShape", "none")
  ELSE normalizeReport(JSONParse(jsonContent).val)


(***************************************************************************)
(* converter.ts                                                            *)
(***************************************************************************)
SARIF_SCHEMA == "https://docs.oasis-open.org/sarif/sarif/v2.1.0/cos02/schemas/sarif-schema-2.1.0.json"

\* mutation of mapSeverityToLevel: the warning case is missing
mapSeverityToLevelNoWarning(severity) ==
  CASE severity = "error" -> "error"
    [] OTHER -> "undefined"

\* a switch without a default: falling off its end returns undefined
mapSeverityToLevel(severity) ==
  CASE severity = "error" -> "error"
    [] severity = "warning" -> "warning"
    [] OTHER -> "undefined"

IsLetter(c) == \E i \in 1..26 : Upper[i] = c \/ Lower[i] = c

\* mutation of ReplaceBackslashes: replace instead of replaceAll
ReplaceFirstBackslash(filePath) ==
  [i \in 1..Len(filePath) |->
     IF filePath[i] = "\\" /\ (\A j \in 1..(i - 1) : filePath[j] # "\\") THEN "/" ELSE filePath[i]]

\* filePath.replaceAll('\\', '/')
ReplaceBackslashes(filePath) == [i \in 1..Len(filePath) |-> IF filePath[i] = "\\" THEN "/" ELSE filePath[i]]

pathToUri(filePath) ==
  LET normalized == ReplaceBackslashes(filePath) IN
  IF Len(normalized) >= 3 /\ IsLetter(normalized[1]) /\ normalized[2] = ":" /\ normalized[3] = "/"
  THEN <<"f", "i", "l", "e", ":", "/", "/", "/">> \o normalized
  ELSE IF Len(normalized) >= 1 /\ normalized[1] = "/"
  THEN <<"f", "i", "l", "e", ":", "/", "/">> \o normalized
  ELSE normalized

\* x > 0 on numbers: false for NaN
GreaterThanZero(x) == x.k = "num" /\ x.v > 0

\* x + y on numbers
Plus(x, y) == IF x.k = "num" /\ y.k = "num" THEN Num(x.v + y.v) ELSE NaN

\* an absent member is a member missing from the record
Absent == <<>>

\* mutation of buildRegion: the span's offset is copied into the region
buildRegionWithOffset(span) ==
  [startLine |-> span.line, charOffset |-> span.offset]
    @@ (IF GreaterThanZero(span.column) THEN [startColumn |-> span.column] ELSE Absent)
    @@ (IF GreaterThanZero(span.length) THEN [endColumn |-> Plus(span.column, span.length)] ELSE Absent)

\* mutation of buildRegion: endColumn only together with startColumn
buildRegionEndNeedsStart(span) ==
  [startLine |-> span.line]
    @@ (IF GreaterThanZero(span.column) THEN [startColumn |-> span.column] ELSE Absent)
    @@ (IF GreaterThanZero(span.column) /\ GreaterThanZero(span.length)
        THEN [endColumn |-> Plus(span.column, span.length)] ELSE Absent)

buildRegion(span) ==
  [startLine |-> span.line]
    @@ (IF GreaterThanZero(span.column) THEN [startColumn |-> span.column] ELSE Absent)
    @@ (IF GreaterThanZero(span.length) THEN [endColumn |-> Plus(span.column, span.length)] ELSE Absent)

buildRelatedLocation(label, filename, id) ==
  [id |-> id,
   physicalLocation |-> [artifactLocation |-> [uri |-> pathToUri(filename)],
                         region |-> buildRegion(label.span)]]
    @@ (IF Truthy(label.label) THEN [message |-> [text |-> label.label.v]] ELSE Absent)

UnknownRule == <<"U", "n", "k", "n", "o", "w", "n", "R", "u", "l", "e">>

\* mutation of RuleIdOf: the code is used as it is
RuleIdOfCode(diagnostic) == diagnostic.code

\* diagnostic.code || 'UnknownRule'
RuleIdOf(diagnostic) == IF diagnostic.code # <<>> THEN diagnostic.code ELSE UnknownRule

\* mutation of buildRule: the help is never set
buildRuleWithoutHelp(diagnostic) ==
  [id |-> RuleIdOf(diagnostic), shortDescription |-> [text |-> RuleIdOf(diagnostic)]]
    @@ (IF Truthy(diagnostic.url) THEN [helpUri |-> diagnostic.url.v] ELSE Absent)

\* the rule descriptor built for a diagnostic whose identifier is new
buildRule(diagnostic) ==
  [id |-> RuleIdOf(diagnostic), shortDescription |-> [text |-> RuleIdOf(diagnostic)]]
    @@ (IF Truthy(diagnostic.url) THEN [helpUri |-> diagnostic.url.v] ELSE Absent)
    @@ (IF Truthy(diagnostic.help) THEN [help |-> [text |-> diagnostic.help.v]] ELSE Absent)

\* mutation of RuleSeen: the registry is never consulted
RuleSeenNever(map, ruleId) == FALSE

\* mutation of RuleSeen: ruleIndexMap.get(ruleId) tested for truthiness
RuleSeenIfIndexTruthy(map, ruleId) == ruleId \in DOMAIN map /\ map[ruleId] # 0

\* ruleIndexMap.has(ruleId)
RuleSeen(map, ruleId) == ruleId \in DOMAIN map

\* mutation of MessageText: the help follows the message directly
MessageTextNoNewline(diagnostic) ==
  diagnostic.message \o (IF Truthy(diagnostic.help) THEN diagnostic.help.v ELSE <<>>)

\* diagnostic.message, with the help appended on a new line
MessageText(diagnostic) ==
  diagnostic.message \o (IF Truthy(diagnostic.help) THEN <<"\n">> \o diagnostic.help.v ELSE <<>>)

\* mutation of RelatedLocations: the ids are the indices of slice(1), from 0
RelatedLocationsFromZero(diagnostic) ==
  [j \in 1..(Len(diagnostic.labels) - 1) |->
     buildRelatedLocation(diagnostic.labels[j + 1], diagnostic.filename, j - 1)]

\* labels.slice(1).map((lbl, idx) => buildRelatedLocation(lbl, filename, idx + 1))
RelatedLocations(diagnostic) ==
  [j \in 1..(Len(diagnostic.labels) - 1) |->
     buildRelatedLocation(diagnostic.labels[j + 1], diagnostic.filename, j)]

\* mutation of PrimaryLocation: the region comes from the last label
PrimaryLocationFromLastLabel(diagnostic) ==
  [physicalLocation |->
     [artifactLocation |-> [uri |-> pathToUri(diagnostic.filename)]]
       @@ (IF Len(diagnostic.labels) > 0
           THEN [region |-> buildRegion(diagnostic.labels[Len(diagnostic.labels)].span)]
           ELSE Absent)]

\* setLocationArtifactUri, and setLocationRegion when there is a first label
PrimaryLocation(diagnostic) ==
  [physicalLocation |->
     [artifactLocation |-> [uri |-> pathToUri(diagnostic.filename)]]
       @@ (IF Len(diagnostic.labels) > 0
           THEN [region |-> buildRegion(diagnostic.labels[1].span)]
           ELSE Absent)]

\* the result built for one diagnostic
buildResult(diagnostic) ==
  [level |-> mapSeverityToLevel(diagnostic.severity),
   message |-> [text |-> MessageText(diagnostic)],
   ruleId |-> RuleIdOf(diagnostic),
   locations |-> <<PrimaryLocation(diagnostic)>>]
    @@ (IF Len(diagnostic.labels) > 1 THEN [relatedLocations |-> RelatedLocations(diagnostic)] ELSE Absent)

\* the property reads of the loop body that raise a TypeError: replaceAll
\* of a filename that is undefined, length of labels that is undefined, and
\* line of a span that is undefined
convertRaises(diagnostic) ==
  \/ "filename" \notin DOMAIN diagnostic
  \/ "labels" \notin DOMAIN diagnostic
  \/ \E i \in 1..Len(diagnostic.labels) : "span" \notin DOMAIN diagnostic.labels[i]

\* mutation of addRule: the new descriptor is put in front
addRuleInFront(ruleList, rule) == <<rule>> \o ruleList

\* sarifRunBuilder.addRule
addRule(ruleList, rule) == Append(ruleList, rule)

\* mutation of addResult: the new result is put in front
addResultInFront(resultList, result) == <<result>> \o resultList

\* sarifRunBuilder.addResult
addResult(resultList, result) == Append(resultList, result)

\* mutation of buildDriver: the version is set without testing toolVersion
buildDriverVersionAlways(toolVersion) ==
  [name |-> "oxlint", informationUri |-> "https://oxc.rs/docs/guide/usage/linter", version |-> toolVersion.v]

\* the run header set up before the loop
buildDriver(toolVersion) ==
  [name |-> "oxlint", informationUri |-> "https://oxc.rs/docs/guide/usage/linter"]
    @@ (IF Truthy(toolVersion) THEN [version |-> toolVersion.v] ELSE Absent)

\* buildSarifOutput: every result gets the position of the rule carrying its ruleId
WithRuleIndex(result, ruleList) ==
  LET hits == {i \in 1..Len(ruleList) : ruleList[i].id = result.ruleId} IN
  IF result.ruleId # <<>> /\ hits # {}
  THEN [ruleIndex |-> (CHOOSE i \in hits : \A j \in hits : j <= i) - 1] @@ result
  ELSE result

buildSarifOutput(driver, ruleList, resultList) ==
  ("$schema" :> SARIF_SCHEMA) @@
  [version |-> "2.1.0",
   runs |-> <<[tool |-> [driver |-> [rules |-> ruleList] @@ driver],
              columnKind |-> "utf16CodeUnits",
              results |-> [i \in 1..Len(resultList) |-> WithRuleIndex(resultList[i], ruleList)]]>>]


(***************************************************************************)
(* index.ts: JSON.stringify(sarif, null, indent)                           *)
(***************************************************************************)
\* the characters of the string literals of converter.ts
CharsOf ==
  ("oxlint" :> <<"o", "x", "l", "i", "n", "t">>) @@
  ("https://oxc.rs/docs/guide/usage/linter" :> <<"h", "t", "t", "p", "s", ":", "/", "/", "o", "x", "c", ".", "r", "s", "/", "d", "o", "c", "s", "/", "g", "u", "i", "d", "e", "/", "u", "s", "a", "g", "e", "/", "l", "i", "n", "t", "e", "r">>) @@
  ("utf16CodeUnits" :> <<"u", "t", "f", "1", "6", "C", "o", "d", "e", "U", "n", "i", "t", "s">>) @@
  ("2.1.0" :> <<"2", ".", "1", ".", "0">>) @@
  ("error" :> <<"e", "r", "r", "o", "r">>) @@
  ("warning" :> <<"w", "a", "r", "n", "i", "n", "g">>) @@
  ("https://docs.oasis-open.org/sarif/sarif/v2.1.0/cos02/schemas/sarif-schema-2.1.0.json" :> <<"h", "t", "t", "p", "s", ":", "/", "/", "d", "o", "c", "s", ".", "o", "a", "s", "i", "s", "-", "o", "p", "e", "n", ".", "o", "r", "g", "/", "s", "a", "r", "i", "f", "/", "s", "a", "r", "i", "f", "/", "v", "2", ".", "1", ".", "0", "/", "c", "o", "s", "0", "2", "/", "s", "c", "h", "e", "m", "a", "s", "/", "s", "a", "r", "i", "f", "-", "s", "c", "h", "e", "m", "a", "-", "2", ".", "1", ".", "0", ".", "j", "s", "o", "n">>)

\* the log as a JavaScript value: a member that is undefined is kept as
\* undefined, a member that was never set is missing
JsRegion(region) == Obj([f \in DOMAIN region |-> region[f]])

JsPhysicalLocation(physical) ==
  Obj([artifactLocation |-> Obj([uri |-> Str(physical.artifactLocation.uri)])]
        @@ (IF "region" \in DOMAIN physical THEN [region |-> JsRegion(physical.region)] ELSE Absent))

JsLocation(location) ==
  Obj([physicalLocation |-> JsPhysicalLocation(location.physicalLocation)]
        @@ (IF "id" \in DOMAIN location THEN [id |-> Num(location.id)] ELSE Absent)
        @@ (IF "message" \in DOMAIN location THEN [message |-> Obj([text |-> Str(location.message.text)])] ELSE Absent))

JsLocations(locations) == Arr([i \in 1..Len(locations) |-> JsLocation(locations[i])])

JsResult(result) ==
  Obj([level |-> IF result.level \in DOMAIN CharsOf THEN Str(CharsOf[result.level]) ELSE Undef,
       message |-> Obj([text |-> Str(result.message.text)]),
       ruleId |-> Str(result.ruleId),
       locations |-> JsLocations(result.locations)]
        @@ (IF "ruleIndex" \in DOMAIN result THEN [ruleIndex |-> Num(result.ruleIndex)] ELSE Absent)
        @@ (IF "relatedLocations" \in DOMAIN result
            THEN [relatedLocations |-> JsLocations(result.relatedLocations)] ELSE Absent))

JsRule(rule) ==
  Obj([id |-> Str(rule.id), shortDescription |-> Obj([text |-> Str(rule.shortDescription.text)])]
        @@ (IF "helpUri" \in DOMAIN rule THEN [helpUri |-> Str(rule.helpUri)] ELSE Absent)
        @@ (IF "help" \in DOMAIN rule THEN [help |-> Obj([text |-> Str(rule.help.text)])] ELSE Absent))

JsDriver(toolDriver) ==
  Obj([name |-> Str(CharsOf[toolDriver.name]),
       informationUri |-> Str(CharsOf[toolDriver.informationUri]),
       rules |-> Arr([i \in 1..Len(toolDriver.rules) |-> JsRule(toolDriver.rules[i])])]
        @@ (IF "version" \in DOMAIN toolDriver THEN [version |-> Str(toolDriver.version)] ELSE Absent))

JsRun(run) ==
  Obj([tool |-> Obj([driver |-> JsDriver(run.tool.driver)]),
       columnKind |-> Str(CharsOf[run.columnKind]),
       results |-> Arr([i \in 1..Len(run.results) |-> JsResult(run.results[i])])])

JsLog(sarif) ==
  Obj(("$schema" :> Str(CharsOf[sarif["$schema"]]))
        @@ [version |-> Str(CharsOf[sarif.version]),
            runs |-> Arr([i \in 1..Len(sarif.runs) |-> JsRun(sarif.runs[i])])])

\* the gap parameter: indent clamped to 10, none below 1
GapWidth(indent) == IF indent < 1 THEN 0 ELSE IF indent > 10 THEN 10 ELSE indent

\* the line break and indentation written before an item at the given depth
LineBreak(indent, depth) ==
  IF GapWidth(indent) = 0 THEN <<>> ELSE <<Ws>> \o [i \in 1..(GapWidth(indent) * depth) |-> Ws]

\* the member names of an object whose values are not undefined
DefinedKeys(r) == SetToSeq({key \in DOMAIN r : r[key].k # "undef"})

RECURSIVE Stringify(_, _, _)
RECURSIVE StringifyElements(_, _, _, _)
RECURSIVE StringifyMembers(_, _, _, _, _)
\* JSON.stringify: NaN is written as null, undefined as null inside an
\* array, and a member whose value is undefined is left out
Stringify(x, indent, depth) ==
  CASE x.k = "arr" ->
         IF Len(x.v) = 0 THEN <<LBrack, RBrack>>
         ELSE <<LBrack>> \o StringifyElements(x.v, 1, indent, depth + 1) \o LineBreak(indent, depth) \o <<RBrack>>
    [] x.k = "obj" ->
         IF DefinedKeys(x.v) = <<>> THEN <<LBrace, RBrace>>
         ELSE <<LBrace>> \o StringifyMembers(x.v, DefinedKeys(x.v), 1, indent, depth + 1)
              \o LineBreak(indent, depth) \o <<RBrace>>
    [] x.k \in {"nan", "undef"} -> <<Null>>
    [] OTHER -> <<x>>

StringifyElements(a, i, indent, depth) ==
  IF i > Len(a) THEN <<>>
  ELSE (IF i > 1 THEN <<Comma>> ELSE <<>>) \o LineBreak(indent, depth) \o Stringify(a[i], indent, depth)
       \o StringifyElements(a, i + 1, indent, depth)

StringifyMembers(r, keys, i, indent, depth) ==
  IF i > Len(keys) THEN <<>>
  ELSE (IF i > 1 THEN <<Comma>> ELSE <<>>) \o LineBreak(indent, depth) \o <<Key(keys[i])>>
       \o Stringify(r[keys[i]], indent, depth) \o StringifyMembers(r, keys, i + 1, indent, depth)

\* JSON.stringify(sarif, null, indent)
JSONStringify(sarif, indent) == Stringify(JsLog(sarif), indent, 0)

(***************************************************************************)
(* The pipeline as a state machine: parseOxlintJson(text), then            *)
(* convertToSarif(report, toolVersion), one loop iteration per step.       *)
(***************************************************************************)
VARIABLES text, pc, parsed, error, cause, report, toolVersion, driver, processed, ruleIndexMap, rules, results, log,
          indent, output, calls, cli, proc

vars == <<text, pc, parsed, error, cause, report, toolVersion, driver, processed, ruleIndexMap, rules, results, log,
          indent, output, calls, cli, proc>>

NoLog == [k |-> "undef", v |-> 0]

NoDriver == [k |-> "undef", v |-> 0]

NoOutput == [k |-> "undef", v |-> 0]

\* no command line: the functions are called as a library
NoCli == [k |-> "undef", v |-> 0]

NoProc == [k |-> "undef", v |-> 0]

\* the values of the optional toolVersion argument
ToolVersions == {Undef, Str(<<"1">>), Str(<<>>)}

\* the state before parseOxlintJson is called on the text t
Start(t) ==
  /\ text = t
  /\ pc = "start"
  /\ parsed = Undef
  /\ error = "none"
  /\ cause = "none"
  /\ report = NoReport
  /\ toolVersion = Undef
  /\ driver = NoDriver
  /\ processed = 0
  /\ ruleIndexMap = <<>>
  /\ rules = <<>>
  /\ results = <<>>
  /\ log = NoLog
  /\ indent = 2
  /\ output = NoOutput
  /\ calls = 0
  /\ cli = NoCli
  /\ proc = NoProc

\* parseOxlintJson(text) returns a Report or raises; parsed is its local
\* variable of that name, left undefined when JSON.parse is not reached or raises
Parse ==
  /\ pc = "start"
  /\ LET r == parseOxlintJson(text) IN
       /\ error' = r.error
       /\ cause' = r.cause
       /\ report' = r.report
       /\ pc' = IF r.error = "none" THEN "parsed" ELSE "failed"
  /\ parsed' = IF ~TrimIsEmpty(text) /\ JSONParse(text).ok THEN JSONParse(text).val ELSE Undef
  /\ UNCHANGED <<text, toolVersion, driver, processed, ruleIndexMap, rules, results, log, indent, output>>
  /\ UNCHANGED <<calls, cli, proc>>

\* mutation of NewRuleIndexMap: one registry kept by the module for all calls
SharedRuleIndexMap == ruleIndexMap

\* new Map<string, number>()
NewRuleIndexMap == <<>>

\* convertToSarif(report, version) up to its loop: the builders and the
\* empty rule registry
ConvertBeginWith(version) ==
  /\ pc = "parsed"
  /\ toolVersion' = version
  /\ driver' = buildDriver(version)
  /\ ruleIndexMap' = NewRuleIndexMap
  /\ rules' = <<>>
  /\ results' = <<>>
  /\ processed' = 0
  /\ pc' = "loop"
  /\ UNCHANGED <<text, parsed, error, cause, report, log, indent, output>>
  /\ UNCHANGED <<calls, cli, proc>>

\* a caller of the library passes any toolVersion, or none
ConvertBegin == \E version \in ToolVersions : ConvertBeginWith(version)

\* one iteration of the loop over report.diagnostics; a TypeError raised in
\* it ends the call
ConvertDiagnostic ==
  /\ pc = "loop"
  /\ processed < Len(report.diagnostics)
  /\ LET diagnostic == report.diagnostics[processed + 1] IN
       IF convertRaises(diagnostic)
       THEN /\ pc' = "raised"
            /\ error' = "TypeError"
            /\ UNCHANGED <<processed, ruleIndexMap, rules, results>>
       ELSE /\ IF ~RuleSeen(ruleIndexMap, RuleIdOf(diagnostic))
               THEN /\ ruleIndexMap' = (RuleIdOf(diagnostic) :> Cardinality(DOMAIN ruleIndexMap)) @@ ruleIndexMap
                    /\ rules' = addRule(rules, buildRule(diagnostic))
               ELSE UNCHANGED <<ruleIndexMap, rules>>
            /\ results' = addResult(results, buildResult(diagnostic))
            /\ processed' = processed + 1
            /\ UNCHANGED <<pc, error>>
  /\ UNCHANGED <<text, parsed, cause, report, toolVersion, driver, log, indent, output>>
  /\ UNCHANGED <<calls, cli, proc>>

\* addRun and buildSarifOutput
ConvertEnd ==
  /\ pc = "loop"
  /\ processed = Len(report.diagnostics)
  /\ log' = buildSarifOutput(driver, rules, results)
  /\ pc' = "done"
  /\ UNCHANGED <<text, parsed, error, cause, report, toolVersion, driver, processed, ruleIndexMap, rules, results,
                 indent, output>>
  /\ UNCHANGED <<calls, cli, proc>>

Next == Parse \/ ConvertBegin \/ ConvertDiagnostic \/ ConvertEnd

\* the values of the indent argument
Indents == {0, 2, 4}

\* return JSON.stringify(sarif, null, n)
SerializeWith(n) ==
  /\ pc = "done"
  /\ indent' = n
  /\ output' = JSONStringify(log, n)
  /\ pc' = "returned"
  /\ UNCHANGED <<text, parsed, error, cause, report, toolVersion, driver, processed, ruleIndexMap, rules, results, log>>
  /\ UNCHANGED <<calls, cli, proc>>

Serialize == \E n \in Indents : SerializeWith(n)

\* convertOxlintToSarif(text, indent): parseOxlintJson(text), then
\* convertToSarif(report) without a toolVersion, then JSON.stringify
NextConvertOxlintToSarif == Parse \/ ConvertBeginWith(Undef) \/ ConvertDiagnostic \/ ConvertEnd \/ Serialize

(***************************************************************************)
(* Input texts                                                             *)
(***************************************************************************)
sM == <<"m">>
sR == <<"r">>
sQ == <<"q">>
sA == <<"a">>
sH == <<"h">>
sU == <<"u">>
sT == <<"t">>
sError == <<"e", "r", "r", "o", "r">>
sWarning == <<"w", "a", "r", "n", "i", "n", "g">>

With(r, key, val) == (key :> val) @@ r

Without(r, key) == [f \in DOMAIN r \ {key} |-> r[f]]

\* a raw diagnostic with the four required members
BaseDiagnostic == [message |-> Str(sM), code |-> Str(sR), severity |-> Str(sError), filename |-> Str(sA)]

\* the sequences over S of length at most n
RECURSIVE SeqsUpTo(_, _)
SeqsUpTo(S, n) ==
  IF n = 0 THEN {<<>>}
  ELSE LET shorter == SeqsUpTo(S, n - 1)
       IN shorter \cup {Append(q, x) : q \in {p \in shorter : Len(p) = n - 1}, x \in S}

\* the raw document with the given entries in its diagnostics array
Document(entries) == Obj([diagnostics |-> Arr(entries)])

(* Spec: diagnostics that differ in code, severity, url and help *)
MaxDiags == 2

RawCodes == {Str(sR), Str(sQ), Str(<<>>), Str(UnknownRule), Null, Num(7)}

RawSeverities ==
  {Str(sWarning), Str(<<"E", "R", "R", "O", "R">>), Str(<<"E", "r", "r", "o", "r">>), Str(<<"w", "a", "r", "n">>),
   Str(<<"C", "U", "S", "T", "O", "M">>), Null, Num(1),
   Arr(<<Str(sError)>>), Arr(<<Str(sError), Str(sError)>>), Obj([severity |-> Str(sError)])}

RawDiagnostics ==
  {With(BaseDiagnostic, "code", c) : c \in RawCodes}
    \cup {With(With(With(BaseDiagnostic, "code", c), "url", Str(sU)), "help", Str(sH)) : c \in {Str(sR), Str(<<>>)}}
    \cup {With(BaseDiagnostic, "severity", v) : v \in RawSeverities}

Init == \E entries \in SeqsUpTo({Obj(d) : d \in RawDiagnostics}, MaxDiags) : Start(Lexemes(Document(entries)))

Spec == Init /\ [][Next]_vars


(* SpecAdmit: entries of the diagnostics array that are no diagnostics, or *)
(* diagnostics with null, non-string or nested values in their members     *)
MaxEntries == 2

\* a decoded object with an own member "toString"
Poison == Obj([toString |-> Num(1)])

NullDiagnostic == [message |-> Null, code |-> Null, severity |-> Null, filename |-> Null]

AdmitEntries ==
  {Null, Num(3), Str(sM), Arr(<<>>), Arr(<<Obj(BaseDiagnostic)>>), Obj(EmptyObject)}
    \cup {Obj(Without(BaseDiagnostic, key)) : key \in DOMAIN BaseDiagnostic}
    \cup {Obj(BaseDiagnostic), Obj(NullDiagnostic),
          Obj(With(With(With(NullDiagnostic, "causes", Str(sM)), "labels", Num(1)), "related", Obj(EmptyObject))),
          Obj(With(BaseDiagnostic, "message", Num(5))),
          Obj(With(BaseDiagnostic, "filename", Arr(<<Num(1), Null, Str(sA)>>))),
          Obj(With(BaseDiagnostic, "code", Obj([code |-> Str(sR)]))),
          Obj(With(BaseDiagnostic, "message", Bool(FALSE)))}
    \cup {Obj(With(BaseDiagnostic, "message", Poison)),
          Obj(With(BaseDiagnostic, "labels", Arr(<<Obj([span |-> Obj([line |-> Poison])])>>))),
          Obj(Without(With(BaseDiagnostic, "message", Poison), "code"))}

\* metadata members holding values of the wrong type
WrongMetadata ==
  [number_of_files |-> Arr(<<>>), number_of_rules |-> Obj(EmptyObject), threads_count |-> Str(sM), start_time |-> Null]

InitAdmit ==
  \/ \E entries \in SeqsUpTo(AdmitEntries, MaxEntries) : Start(Lexemes(Document(entries)))
  \/ \E entries \in SeqsUpTo(AdmitEntries, 1) :
       Start(Lexemes(Obj(With(WrongMetadata, "diagnostics", Arr(entries)))))
  \/ Start(Lexemes(Obj([diagnostics |-> Arr(<<>>), start_time |-> Arr(<<Poison>>)])))

SpecAdmit == InitAdmit /\ [][Next]_vars

(* SpecText: texts that are blank, malformed, of the wrong shape, or valid *)
MaxBlanks == 2

TextValues ==
  {Document(<<>>), Document(<<Obj(BaseDiagnostic)>>), Document(<<Obj(With(BaseDiagnostic, "message", Poison))>>),
   Obj(EmptyObject), Obj([foo |-> Str(sM)]), Obj([diagnostics |-> Null]), Obj([diagnostics |-> Obj(EmptyObject)]),
   Obj([diagnostics |-> Str(sM)]), Arr(<<>>), Arr(<<Document(<<>>)>>), Null, Str(sM), Str(<<>>), Num(0), Num(5),
   Bool(FALSE), Bool(TRUE)}

DeleteAt(t, i) == SubSeq(t, 1, i - 1) \o SubSeq(t, i + 1, Len(t))

InsertAt(t, i, lexeme) == SubSeq(t, 1, i - 1) \o <<lexeme>> \o SubSeq(t, i, Len(t))

\* a text, the text with blanks around or inside it, and the text damaged
\* in one place
TextVariants(t) ==
  {t, <<Ws>> \o t \o <<Ws>>, <<Uws>> \o t, t \o <<Uws>>, <<Ws, Uws>> \o t \o <<Uws, Ws>>, t \o t}
    \cup {DeleteAt(t, i) : i \in 1..Len(t)}
    \cup {[t EXCEPT ![i] = Bad] : i \in 1..Len(t)}
    \cup {InsertAt(t, i, Ws) : i \in 1..Len(t)}
    \cup {InsertAt(t, i, Comma) : i \in 1..Len(t)}

InitText ==
  \/ \E value \in TextValues : \E t \in TextVariants(Lexemes(value)) : Start(t)
  \/ \E t \in SeqsUpTo({Ws, Uws}, MaxBlanks) : Start(t)

SpecText == InitText /\ [][Next]_vars

(* SpecLabels: a diagnostic with some labels, and one with all but the     *)
(* first of them                                                           *)
MaxLabels == 3

RawSpan(line, column, length) == Obj([offset |-> Num(9), line |-> line, column |-> column, length |-> length])

RawLabels ==
  {Obj([span |-> RawSpan(Num(3), Num(4), Num(5)), label |-> Str(sT)]),
   Obj([span |-> RawSpan(Num(6), Num(0), Num(5))]),
   Obj([span |-> RawSpan(Num(7), Num(2), Num(0)), label |-> Str(<<>>)]),
   Obj([span |-> RawSpan(Num(8), Num(0), Num(0)), label |-> Num(1)]),
   Obj([span |-> RawSpan(Str(sM), Str(<<"1", "2">>), Num(-1)), label |-> Str(sH)]),
   Obj([span |-> RawSpan(Num(0), Str(sM), Num(5))]),
   Obj([label |-> Str(sU)]),
   Arr(<<>>),
   Null}

\* the labels after the first
Rest(labels) == IF labels = <<>> THEN <<>> ELSE Tail(labels)

LabelledDiagnostic(code, filename, labels) ==
  Obj(With(With(With(BaseDiagnostic, "code", Str(code)), "filename", Str(filename)), "labels", Arr(labels)))

InitLabels ==
  \E labels \in SeqsUpTo(RawLabels, MaxLabels) :
    Start(Lexemes(Document(<<LabelledDiagnostic(sR, <<"C", ":", "\\", "a">>, labels),
                             LabelledDiagnostic(sQ, <<"/", "a">>, Rest(labels))>>)))

SpecLabels == InitLabels /\ [][Next]_vars

(***************************************************************************)
(* Claims                                                                  *)
(***************************************************************************)
\* the entries of the decoded diagnostics array
RawEntries == GetProp(parsed, "diagnostics").v

\* an entry that is an object with the four required members
HasRequiredKeys(entry) == entry.k = "obj" /\ {"message", "code", "severity", "filename"} \subseteq DOMAIN entry.v

\* the raw entries the Report's diagnostics come from, in input order
AdmittedEntries == SelectSeq(RawEntries, HasRequiredKeys)

\* the rule identifier of a diagnostic: its code, or "UnknownRule" for an empty code
ExpectedRuleId(diagnostic) == IF Len(diagnostic.code) = 0 THEN UnknownRule ELSE diagnostic.code

IsPrefix(p, q) == Len(p) <= Len(q) /\ SubSeq(q, 1, Len(p)) = p

\* C4: the single run of the log has exactly one result per diagnostic of
\* the Report, the i-th result built from the i-th diagnostic (its rule
\* identifier, level and message), also when there is no diagnostic
C4_OneResultPerDiagnostic ==
  /\ pc = "loop" => Len(results) = processed
  /\ pc = "done" =>
       /\ Len(log.runs) = 1
       /\ Len(log.runs[1].results) = Len(report.diagnostics)
       /\ \A i \in 1..Len(report.diagnostics) :
            /\ log.runs[1].results[i].ruleId = ExpectedRuleId(report.diagnostics[i])
            /\ log.runs[1].results[i].level = report.diagnostics[i].severity
            /\ IsPrefix(report.diagnostics[i].message, log.runs[1].results[i].message.text)

C4_Witness ==
  /\ pc = "done"
  /\ Len(report.diagnostics) = 2
  /\ log.runs[1].results[1].ruleId # log.runs[1].results[2].ruleId
  /\ log.runs[1].results[1].level # log.runs[1].results[2].level

\* C5: tool.driver.rules holds exactly one entry per distinct rule
\* identifier of the diagnostics, and every result's ruleIndex is the
\* position of the entry whose id is the result's ruleId
C5_RuleDedup ==
  pc = "done" =>
    LET ruleList == log.runs[1].tool.driver.rules
        ids == {ExpectedRuleId(report.diagnostics[i]) : i \in 1..Len(report.diagnostics)}
    IN /\ {ruleList[i].id : i \in 1..Len(ruleList)} = ids
       /\ Len(ruleList) = Cardinality(ids)
       /\ \A i \in 1..Len(log.runs[1].results) :
            LET result == log.runs[1].results[i] IN
            /\ "ruleIndex" \in DOMAIN result
            /\ result.ruleIndex \in 0..(Len(ruleList) - 1)
            /\ ruleList[result.ruleIndex + 1].id = result.ruleId

C5_Witness ==
  /\ pc = "done"
  /\ Len(log.runs[1].results) = 2
  /\ log.runs[1].results[1].ruleId = log.runs[1].results[2].ruleId
  /\ log.runs[1].results[1].message.text # log.runs[1].results[2].message.text
  /\ Len(log.runs[1].tool.driver.rules) = 1

\* C6: every result of the log converted from an accepted text has level
\* "error" or "warning": "error" for a diagnostic normalized to error,
\* "warning" for one normalized to warning
C6_LevelIsErrorOrWarning ==
  pc = "done" =>
    \A i \in 1..Len(log.runs[1].results) :
      /\ log.runs[1].results[i].level \in {"error", "warning"}
      /\ report.diagnostics[i].severity = "error" => log.runs[1].results[i].level = "error"
      /\ report.diagnostics[i].severity = "warning" => log.runs[1].results[i].level = "warning"

C6_Witness ==
  /\ pc = "done"
  /\ \E i \in 1..Len(log.runs[1].results) :
       report.diagnostics[i].severity = "error" /\ log.runs[1].results[i].level = "error"
  /\ \E i \in 1..Len(log.runs[1].results) :
       report.diagnostics[i].severity = "warning" /\ log.runs[1].results[i].level = "warning"

\* the lower-cased string form of a raw value
LowerStringForm(raw) == ToLowerCase(ToStr(raw))

HasDiagnosticsArray(value) ==
  value.k = "obj" /\ "diagnostics" \in DOMAIN value.v /\ value.v["diagnostics"].k = "arr"

\* C1: parseOxlintJson returns a Report or fails with one of three kinds:
\* EmptyInput for a blank text, else MalformedJson (with the decoder's
\* failure as cause) for a text that is not JSON, else InvalidShape for a
\* value that is no object with a diagnostics array, else a Report
C1_ThreeErrorKinds ==
  pc # "start" =>
    IF \A i \in 1..Len(text) : text[i].k \in {"ws", "uws"}
    THEN error = "EmptyInput"
    ELSE IF ~JSONParse(text).ok
    THEN error = "MalformedJson" /\ cause = "SyntaxError"
    ELSE IF ~HasDiagnosticsArray(JSONParse(text).val)
    THEN error = "InvalidShape"
    ELSE error = "none" /\ report # NoReport

\* C2: a text that decodes to an object with a diagnostics array is parsed
\* to a Report without an error, whatever its members hold
C2_NeverRaisesOnFields ==
  (pc # "start" /\ HasDiagnosticsArray(parsed)) => (error = "none" /\ report # NoReport)

\* C3: the Report's diagnostics are the entries that are objects with the
\* four members message, code, severity and filename, in input order, with
\* message, code and filename the string form of the raw value or "" for
\* null; the other entries are dropped and cause no error
C3_AdmissionFilter ==
  /\ (pc # "start" /\ error = "none") =>
       /\ Len(report.diagnostics) = Len(AdmittedEntries)
       /\ \A i \in 1..Len(report.diagnostics) :
            \A f \in {"message", "code", "filename"} :
              LET raw == AdmittedEntries[i].v[f]
                  field == report.diagnostics[i][f]
              IN /\ field = IF raw = Null THEN <<>> ELSE ToStr(raw)
                 /\ raw = Num(5) => field = <<"5">>
                 /\ raw = Bool(FALSE) => field = <<"f", "a", "l", "s", "e">>
                 /\ raw = Arr(<<Num(1), Null, Str(sA)>>) => field = <<"1", ",", ",", "a">>
  /\ (pc # "start" /\ HasDiagnosticsArray(parsed) /\ DOMAIN parsed.v = {"diagnostics"}
        /\ Len(AdmittedEntries) = 0) =>
       (error = "none" /\ report.diagnostics = <<>>)

C3_Witness ==
  /\ pc = "parsed"
  /\ Len(RawEntries) = 2
  /\ RawEntries[1].k = "obj"
  /\ DOMAIN RawEntries[1].v = {"message", "severity", "filename"}
  /\ RawEntries[2] = Obj(NullDiagnostic)
  /\ Len(report.diagnostics) = 1
  /\ report.diagnostics[1].code = <<>>

\* C8: a result has no relatedLocations for a diagnostic with at most one
\* label, and otherwise one entry per label after the first, in order, the
\* j-th with id j, the diagnostic file's URI, the region of label j+1 and
\* the label's text as message.text when that text is a non-empty string,
\* no message otherwise
C8_RelatedLocations ==
  pc = "done" =>
    \A i \in 1..Len(report.diagnostics) :
      LET labels == report.diagnostics[i].labels
          result == log.runs[1].results[i]
      IN /\ Len(labels) <= 1 => "relatedLocations" \notin DOMAIN result
         /\ Len(labels) >= 2 =>
              /\ "relatedLocations" \in DOMAIN result
              /\ Len(result.relatedLocations) = Len(labels) - 1
              /\ \A j \in 1..(Len(labels) - 1) :
                   LET location == result.relatedLocations[j]
                       label == labels[j + 1]
                   IN /\ location.id = j
                      /\ location.physicalLocation.artifactLocation.uri = pathToUri(report.diagnostics[i].filename)
                      /\ location.physicalLocation.artifactLocation.uri
                           = result.locations[1].physicalLocation.artifactLocation.uri
                      /\ location.physicalLocation.region.startLine = label.span.line
                      /\ IF label.label.k = "str" /\ Len(label.label.v) > 0
                         THEN "message" \in DOMAIN location /\ location.message.text = label.label.v
                         ELSE "message" \notin DOMAIN location

C8_Witness ==
  /\ pc = "done"
  /\ "relatedLocations" \in DOMAIN log.runs[1].results[1]
  /\ "relatedLocations" \in DOMAIN log.runs[1].results[2]
  /\ Len(log.runs[1].results[1].relatedLocations) = 2
  /\ log.runs[1].results[1].relatedLocations[2].id = 2
  /\ log.runs[1].results[2].relatedLocations[1].id = 1
  /\ "message" \in DOMAIN log.runs[1].results[1].relatedLocations[1]
  /\ "message" \notin DOMAIN log.runs[1].results[1].relatedLocations[2]

\* the region of the k-th label of a result: the primary location's for
\* the first label, a related location's for the others
RegionOfLabel(result, k) ==
  IF k = 1 THEN result.locations[1].physicalLocation.region
  ELSE result.relatedLocations[k - 1].physicalLocation.region

\* C9: every region has startLine = span.line; startColumn = span.column
\* exactly when span.column > 0; endColumn = span.column + span.length
\* exactly when span.length > 0, whether or not startColumn is present
C9_RegionFromSpan ==
  pc = "done" =>
    \A i \in 1..Len(report.diagnostics) :
      \A k \in 1..Len(report.diagnostics[i].labels) :
        LET span == report.diagnostics[i].labels[k].span
            region == RegionOfLabel(log.runs[1].results[i], k)
        IN /\ DOMAIN region \subseteq {"startLine", "startColumn", "endColumn"}
           /\ region.startLine = span.line
           /\ "startColumn" \in DOMAIN region <=> (span.column.k = "num" /\ span.column.v > 0)
           /\ "startColumn" \in DOMAIN region => region.startColumn = span.column
           /\ "endColumn" \in DOMAIN region <=> (span.length.k = "num" /\ span.length.v > 0)
           /\ "endColumn" \in DOMAIN region =>
                region.endColumn = IF span.column.k = "num" THEN Num(span.column.v + span.length.v) ELSE NaN

C9_Witness ==
  /\ pc = "done"
  /\ Len(report.diagnostics[1].labels) >= 2
  /\ report.diagnostics[1].labels[2].span.column = Num(0)
  /\ report.diagnostics[1].labels[2].span.length = Num(5)
  /\ log.runs[1].results[1].relatedLocations[1].physicalLocation.region.endColumn = Num(5)
  /\ "startColumn" \notin DOMAIN log.runs[1].results[1].relatedLocations[1].physicalLocation.region
  /\ report.diagnostics[1].labels[1].span.column = Num(4)
  /\ log.runs[1].results[1].locations[1].physicalLocation.region.endColumn = Num(9)

\* C10: every result has exactly one primary location, with the artifact
\* URI pathToUri(filename); its region is the first label's, and it has no
\* region when the diagnostic has no label
C10_PrimaryLocation ==
  pc = "done" =>
    \A i \in 1..Len(report.diagnostics) :
      LET diagnostic == report.diagnostics[i]
          result == log.runs[1].results[i]
          physical == result.locations[1].physicalLocation
      IN /\ Len(result.locations) = 1
         /\ physical.artifactLocation.uri = pathToUri(diagnostic.filename)
         /\ diagnostic.filename = <<"/", "a">> =>
              physical.artifactLocation.uri = <<"f", "i", "l", "e", ":", "/", "/", "/", "a">>
         /\ IF Len(diagnostic.labels) = 0
            THEN DOMAIN physical = {"artifactLocation"}
            ELSE /\ DOMAIN physical = {"artifactLocation", "region"}
                 /\ physical.region.startLine = diagnostic.labels[1].span.line
                 /\ physical.region = RegionOfLabel(result, 1)
                 /\ "startColumn" \in DOMAIN physical.region =>
                      physical.region.startColumn = diagnostic.labels[1].span.column

C10_Witness ==
  /\ pc = "done"
  /\ Len(report.diagnostics[1].labels) = 1
  /\ log.runs[1].results[1].locations[1].physicalLocation.region.startLine = Num(3)
  /\ Len(report.diagnostics[2].labels) = 0
  /\ "region" \notin DOMAIN log.runs[1].results[2].locations[1].physicalLocation

(***************************************************************************)
(* SpecPaths: one diagnostic, its filename any short path over a drive     *)
(* letter, a colon, the two slashes and a letter, or one of a few longer   *)
(* paths                                                                   *)
(***************************************************************************)
MaxPath == 4

PathChars == {"C", ":", "\\", "/", "a"}

WindowsPath == <<"C", ":", "\\", "U", "s", "e", "r", "s", "\\", "f", "o", "o", "\\", "t", "e", "s", "t", ".", "t", "s">>

UnixPath == <<"/", "h", "o", "m", "e", "/", "u", "s", "e", "r", "/", "a", ".", "t", "s">>

RelativePath == <<"s", "r", "c", "/", "t", "e", "s", "t", ".", "t", "s">>

LongPaths ==
  {WindowsPath, UnixPath, RelativePath, <<"c", ":", "/", "a">>, <<"1", ":", "/", "a">>,
   <<"s", "r", "c", "\\", "a", "\\", "b">>, <<"\\", "a", "\\", "b">>,
   <<"f", "i", "l", "e", ":", "/", "/", "/", "a">>}

InitPaths ==
  \E filename \in SeqsUpTo(PathChars, MaxPath) \cup LongPaths :
    Start(Lexemes(Document(<<Obj(With(BaseDiagnostic, "filename", Str(filename)))>>)))

SpecPaths == InitPaths /\ [][Next]_vars

IsSlash(c) == c = "/" \/ c = "\\"

\* a path that begins with a drive letter, a colon and a slash of either kind
BeginsWithDrive(path) == Len(path) >= 3 /\ IsLetter(path[1]) /\ path[2] = ":" /\ IsSlash(path[3])

\* C11: the URI of a path is the path with every backslash replaced by a
\* forward slash, behind the prefix file:/// when the path begins with a
\* drive letter, a colon and a slash, behind file:// when it begins with a
\* slash, and with no prefix otherwise
C11_PathToUri ==
  pc = "done" =>
    \A i \in 1..Len(report.diagnostics) :
      LET path == report.diagnostics[i].filename
          uri == log.runs[1].results[i].locations[1].physicalLocation.artifactLocation.uri
          prefix == Len(uri) - Len(path)
      IN /\ prefix = (IF BeginsWithDrive(path) THEN 8 ELSE IF Len(path) >= 1 /\ IsSlash(path[1]) THEN 7 ELSE 0)
         /\ SubSeq(uri, 1, prefix) = SubSeq(<<"f", "i", "l", "e", ":", "/", "/", "/">>, 1, prefix)
         /\ \A k \in 1..Len(path) : uri[prefix + k] = (IF path[k] = "\\" THEN "/" ELSE path[k])
         /\ path = WindowsPath => uri = <<"f", "i", "l", "e", ":", "/", "/", "/", "C", ":", "/", "U", "s", "e", "r", "s", "/", "f", "o", "o", "/", "t", "e", "s", "t", ".", "t", "s">>
         /\ path = UnixPath => uri = <<"f", "i", "l", "e", ":", "/", "/", "/", "h", "o", "m", "e", "/", "u", "s", "e", "r", "/", "a", ".", "t", "s">>
         /\ path = RelativePath => uri = RelativePath

C11_Witness ==
  /\ pc = "done"
  /\ report.diagnostics[1].filename = WindowsPath
  /\ log.runs[1].results[1].locations[1].physicalLocation.artifactLocation.uri = <<"f", "i", "l", "e", ":", "/", "/", "/", "C", ":", "/", "U", "s", "e", "r", "s", "/", "f", "o", "o", "/", "t", "e", "s", "t", ".", "t", "s">>

(***************************************************************************)
(* SpecHelp: diagnostics with and without a help, for one rule             *)
(***************************************************************************)
MaxHelpDiags == 2

RawHelps == {Str(sH), Str(<<>>), Null, Num(0)}

RawHelpDiagnostics ==
  {With(BaseDiagnostic, "message", m) : m \in {Str(sM), Str(<<>>)}}
    \cup {With(With(BaseDiagnostic, "message", m), "help", h) : m \in {Str(sM), Str(<<>>)}, h \in RawHelps}

InitHelp ==
  \E entries \in SeqsUpTo({Obj(d) : d \in RawHelpDiagnostics}, MaxHelpDiags) : Start(Lexemes(Document(entries)))

SpecHelp == InitHelp /\ [][Next]_vars

\* C12 (amended): a result's message.text is the diagnostic's message,
\* followed by a newline and the help when the diagnostic has a non-empty
\* help, and the message alone when the help is absent or empty
C12_MessageText ==
  pc = "done" =>
    \A i \in 1..Len(report.diagnostics) :
      LET diagnostic == report.diagnostics[i] IN
      log.runs[1].results[i].message.text =
        IF diagnostic.help.k = "str" /\ Len(diagnostic.help.v) > 0
        THEN diagnostic.message \o <<"\n">> \o diagnostic.help.v
        ELSE diagnostic.message

\* C12 as claimed: the newline and the help follow whenever the help is present
C12_AsClaimed ==
  pc = "done" =>
    \A i \in 1..Len(report.diagnostics) :
      LET diagnostic == report.diagnostics[i] IN
      log.runs[1].results[i].message.text =
        IF diagnostic.help # Undef
        THEN diagnostic.message \o <<"\n">> \o diagnostic.help.v
        ELSE diagnostic.message

C12_Witness ==
  /\ pc = "done"
  /\ Len(report.diagnostics) = 2
  /\ report.diagnostics[1].help = Str(sH)
  /\ log.runs[1].results[1].message.text = <<"m", "\n", "h">>
  /\ report.diagnostics[2].help = Undef
  /\ log.runs[1].results[2].message.text = <<"m">>

\* C13 (amended): every log, also the log of a Report without diagnostics,
\* has the SARIF 2.1.0 schema URI as $schema, version "2.1.0" and exactly
\* one run, whose driver is named "oxlint" with the linter documentation
\* URL as informationUri, whose columnKind is "utf16CodeUnits" and whose
\* results is an array; the driver has the version toolVersion when
\* toolVersion is a non-empty string and no version otherwise
C13_LogHeader ==
  pc = "done" =>
    /\ DOMAIN log = {"$schema", "version", "runs"}
    /\ log["$schema"] = "https://docs.oasis-open.org/sarif/sarif/v2.1.0/cos02/schemas/sarif-schema-2.1.0.json"
    /\ log.version = "2.1.0"
    /\ Len(log.runs) = 1
    /\ log.runs[1].tool.driver.name = "oxlint"
    /\ log.runs[1].tool.driver.informationUri = "https://oxc.rs/docs/guide/usage/linter"
    /\ log.runs[1].columnKind = "utf16CodeUnits"
    /\ "results" \in DOMAIN log.runs[1]
    /\ DOMAIN log.runs[1].results = 1..Len(report.diagnostics)
    /\ IF toolVersion.k = "str" /\ Len(toolVersion.v) > 0
       THEN "version" \in DOMAIN log.runs[1].tool.driver /\ log.runs[1].tool.driver.version = toolVersion.v
       ELSE "version" \notin DOMAIN log.runs[1].tool.driver

\* C13 as claimed: the driver has the version toolVersion whenever a
\* toolVersion is passed
C13_AsClaimed ==
  pc = "done" =>
    IF toolVersion # Undef
    THEN "version" \in DOMAIN log.runs[1].tool.driver /\ log.runs[1].tool.driver.version = toolVersion.v
    ELSE "version" \notin DOMAIN log.runs[1].tool.driver

C13_Witness ==
  /\ pc = "done"
  /\ Len(report.diagnostics) = 0
  /\ toolVersion = Str(<<"1">>)
  /\ log.runs[1].results = <<>>
  /\ log.runs[1].tool.driver.version = <<"1">>

(***************************************************************************)
(* SpecConvert: convertOxlintToSarif on texts that fail to parse and on    *)
(* documents with labels, help and url                                     *)
(***************************************************************************)
MaxConvertDiags == 2

ConvertEntries ==
  {Obj(BaseDiagnostic),
   Obj(With(BaseDiagnostic, "labels",
            Arr(<<Obj([span |-> RawSpan(Num(3), Num(4), Num(5)), label |-> Str(sT)]),
                  Obj([span |-> RawSpan(Num(6), Num(0), Num(5))])>>))),
   Obj(With(BaseDiagnostic, "labels", Arr(<<Obj([span |-> RawSpan(Str(sM), Num(2), Num(1))])>>))),
   Obj(With(With(With(BaseDiagnostic, "code", Str(<<>>)), "url", Str(sU)), "help", Str(sH))),
   Null}

FailingTexts ==
  {<<>>, <<Ws>>, <<Uws>>, <<Bad>>, <<LBrace>>, Lexemes(Null), Lexemes(Obj(EmptyObject)),
   Lexemes(Document(<<Obj(With(BaseDiagnostic, "message", Poison))>>))}

InitConvert ==
  \/ \E entries \in SeqsUpTo(ConvertEntries, MaxConvertDiags) : Start(Lexemes(Document(entries)))
  \/ \E t \in FailingTexts : Start(t)

SpecConvert == InitConvert /\ [][NextConvertOxlintToSarif]_vars

\* the driver of the single run of a decoded log
DecodedDriver(decoded) == decoded.v["runs"].v[1].v["tool"].v["driver"].v

\* C14: convertOxlintToSarif(text, indent) raises the error of
\* parseOxlintJson and returns no text when parsing fails; otherwise it
\* returns, for every indent, a text that decodes to the log
\* convertToSarif(parseOxlintJson(text)), in which indent changes the
\* whitespace only and the driver has no version
C14_SerializationOfConvert ==
  /\ pc = "failed" =>
       /\ output = NoOutput
       /\ error = parseOxlintJson(text).error
       /\ cause = parseOxlintJson(text).cause
  /\ pc = "returned" =>
       /\ error = "none"
       /\ JSONParse(output).ok
       /\ JSONParse(output).val = JsLog(log)
       /\ DropWs(output) = JSONStringify(log, 0)
       /\ "version" \notin DOMAIN DecodedDriver(JSONParse(output).val)

(***************************************************************************)
(* SpecTotal: Reports with empty message, code and filename, without       *)
(* labels, and with every kind of span the parser produces                 *)
(***************************************************************************)
MaxTotalDiags == 2

TotalEntries ==
  {Obj(NullDiagnostic), Obj(BaseDiagnostic),
   Obj(With(With(With(NullDiagnostic, "causes", Str(sM)), "labels", Num(1)), "related", Obj(EmptyObject)))}
    \cup {Obj(With(NullDiagnostic, "labels", Arr(<<l>>))) : l \in RawLabels}

InitTotal == \E entries \in SeqsUpTo(TotalEntries, MaxTotalDiags) : Start(Lexemes(Document(entries)))

SpecTotal == InitTotal /\ [][Next]_vars

\* C15: on every Report the parser returns, convertToSarif raises nothing,
\* can take its next step until every diagnostic is processed, and returns a
\* log with a result for every diagnostic
C15_ConvertIsTotal ==
  /\ pc # "raised"
  /\ pc \in {"parsed", "loop", "done"} => error = "none"
  /\ pc = "loop" => (processed <= Len(report.diagnostics) /\ Len(results) = processed)
  /\ pc = "done" =>
       /\ processed = Len(report.diagnostics)
       /\ log # NoLog
       /\ Len(log.runs[1].results) = Len(report.diagnostics)

C15_Witness ==
  /\ pc = "done"
  /\ Len(report.diagnostics) = 2
  /\ report.diagnostics[1].message = <<>>
  /\ report.diagnostics[1].code = <<>>
  /\ report.diagnostics[1].filename = <<>>
  /\ report.diagnostics[1].labels = <<>>
  /\ Len(report.diagnostics[2].labels) = 1
  /\ report.diagnostics[2].labels[1].span.line = NaN
  /\ Len(log.runs[1].results) = 2

(***************************************************************************)
(* SpecCalls: parseOxlintJson and convertToSarif called several times, one *)
(* call after the other                                                    *)
(***************************************************************************)
MaxCalls == 2

CallDiagnostics ==
  {LabelledDiagnostic(sR, sA, <<Obj([span |-> RawSpan(Num(3), Num(4), Num(5))]),
                                Obj([span |-> RawSpan(Num(6), Num(0), Num(5)), label |-> Str(sT)])>>),
   LabelledDiagnostic(sQ, sA, <<>>)}

CallTexts == {Lexemes(Document(entries)) : entries \in SeqsUpTo(CallDiagnostics, 2)} \cup {<<Bad>>}

\* another call after a call has returned or raised: nothing of the ended
\* call is handed to the next one but what the module keeps, which is nothing
NewCall ==
  /\ pc \in {"failed", "raised", "done"}
  /\ calls < MaxCalls
  /\ calls' = calls + 1
  /\ \E t \in CallTexts : text' = t
  /\ pc' = "start"
  /\ UNCHANGED <<parsed, error, cause, report, toolVersion, driver, processed, ruleIndexMap, rules, results, log,
                 indent, output, cli, proc>>

\* the library called again and again
NextCalls == Next \/ NewCall

InitCalls == \E t \in CallTexts : Start(t)

SpecCalls == InitCalls /\ [][NextCalls]_vars

\* the rules a call registers for the diagnostics ds when it runs alone
RECURSIVE RulesAlone(_)
RulesAlone(ds) ==
  IF ds = <<>> THEN <<>>
  ELSE LET before == RulesAlone(SubSeq(ds, 1, Len(ds) - 1))
           last == ds[Len(ds)]
       IN IF \E i \in 1..Len(before) : before[i].id = ExpectedRuleId(last) THEN before
          ELSE Append(before, buildRule(last))

\* the log convertToSarif(r, version) returns when it runs alone
LogAlone(r, version) ==
  buildSarifOutput(buildDriver(version), RulesAlone(r.diagnostics),
                   [i \in 1..Len(r.diagnostics) |-> buildResult(r.diagnostics[i])])

\* C16: however many calls ran before, a call of parseOxlintJson returns
\* what the text alone determines and a call of convertToSarif returns the
\* log its Report and toolVersion alone determine; the first rule a call
\* registers has index 0 and the first related location of a result has id 1
C16_CallsAreIndependent ==
  /\ pc \in {"parsed", "failed"} =>
       (error = parseOxlintJson(text).error /\ report = parseOxlintJson(text).report)
  /\ (pc = "loop" /\ processed > 0) => (Len(rules) > 0 /\ ruleIndexMap[rules[1].id] = 0)
  /\ pc = "done" =>
       /\ log = LogAlone(report, toolVersion)
       /\ \A i \in 1..Len(log.runs[1].results) :
            LET result == log.runs[1].results[i] IN
            /\ i = 1 => result.ruleIndex = 0
            /\ "relatedLocations" \in DOMAIN result => result.relatedLocations[1].id = 1

C16_Witness ==
  /\ pc = "done"
  /\ calls = 2
  /\ Len(log.runs[1].results) = 2
  /\ log.runs[1].results[1].ruleId = sQ
  /\ log.runs[1].results[1].ruleIndex = 0
  /\ "relatedLocations" \in DOMAIN log.runs[1].results[2]
  /\ log.runs[1].results[2].relatedLocations[1].id = 1

(***************************************************************************)
(* cli.ts: main()                                                          *)
(***************************************************************************)
cliVersion == <<"0", ".", "1", ".", "0">>

\* the variables of convertOxlintToSarif that main() does not touch itself
libraryVars == <<parsed, error, cause, report, toolVersion, driver, processed, ruleIndexMap, rules, results, log,
                 indent, output, calls>>

\* mutation of Fail: the message is written and the exit code is left as it was
FailWithoutExitCode(message) == [proc EXCEPT !.stderr = Append(@, message), !.exited = TRUE]

\* process.stderr.write(message); process.exit(1)
Fail(message) == [proc EXCEPT !.stderr = Append(@, message), !.exited = TRUE, !.exitCode = 1]

\* main() returns and the process ends with the exit code 0
Succeed(p) == [p EXCEPT !.exited = TRUE, !.exitCode = 0]

\* program.parse(): --version and --help print to the standard output and
\* end the process with the exit code 0
CliParseArgs ==
  /\ pc = "main"
  /\ IF cli.flag = "--version"
     THEN proc' = Succeed([proc EXCEPT !.stdout = Str(cliVersion)]) /\ pc' = "exited"
     ELSE IF cli.flag = "--help"
     THEN proc' = Succeed([proc EXCEPT !.stdout = Str(<<"U", "s", "a", "g", "e">>)]) /\ pc' = "exited"
     ELSE proc' = proc /\ pc' = "input"
  /\ UNCHANGED <<text, cli>>
  /\ UNCHANGED libraryVars

\* the input source: the file of --input, or the piped standard input
CliReadInput ==
  /\ pc = "input"
  /\ IF Truthy(cli.input)
     THEN IF cli.fileReadable
          THEN text' = cli.content /\ pc' = "start" /\ proc' = proc
          ELSE proc' = Fail("Cannot read input file") /\ pc' = "exited" /\ text' = text
     ELSE IF cli.isTTY
     THEN proc' = Fail("No input provided") /\ pc' = "exited" /\ text' = text
     ELSE IF cli.stdinFails
     THEN proc' = Fail("Failed to read from stdin") /\ pc' = "exited" /\ text' = text
     ELSE text' = cli.content /\ pc' = "start" /\ proc' = proc
  /\ UNCHANGED cli
  /\ UNCHANGED libraryVars

\* the catch around convertOxlintToSarif(jsonContent)
CliConversionFailed ==
  /\ pc \in {"failed", "raised"}
  /\ proc' = Fail("Conversion failed")
  /\ pc' = "exited"
  /\ UNCHANGED <<text, cli>>
  /\ UNCHANGED libraryVars

\* mutation of CliWriteOutput: the text goes to the standard output as well as to the file
CliWriteOutputBoth ==
  /\ pc = "returned"
  /\ IF Truthy(cli.output)
     THEN IF cli.outputWritable
          THEN proc' = Succeed([proc EXCEPT !.file = output, !.stdout = Str(output \o <<Ws>>)])
          ELSE proc' = Fail("Cannot write output file")
     ELSE proc' = Succeed([proc EXCEPT !.stdout = Str(output \o <<Ws>>)])
  /\ pc' = "exited"
  /\ UNCHANGED <<text, cli>>
  /\ UNCHANGED libraryVars

\* the output destination: the file of --output, or the standard output
CliWriteOutput ==
  /\ pc = "returned"
  /\ IF Truthy(cli.output)
     THEN IF cli.outputWritable
          THEN proc' = Succeed([proc EXCEPT !.file = output])
          ELSE proc' = Fail("Cannot write output file")
     ELSE proc' = Succeed([proc EXCEPT !.stdout = Str(output \o <<Ws>>)])
  /\ pc' = "exited"
  /\ UNCHANGED <<text, cli>>
  /\ UNCHANGED libraryVars

\* main(): convertOxlintToSarif(jsonContent) is called with the default indent
NextCli ==
  \/ CliParseArgs
  \/ CliReadInput
  \/ Parse
  \/ ConvertBeginWith(Undef)
  \/ ConvertDiagnostic
  \/ ConvertEnd
  \/ SerializeWith(2)
  \/ CliConversionFailed
  \/ CliWriteOutput

\* the values of --input and --output: not given, empty, a path
CliPaths == {Undef, Str(<<>>), Str(<<"/", "a">>)}

\* what the input file or the standard input holds
CliContents ==
  {<<Ws>>, <<Bad>>, Lexemes(Obj(EmptyObject)), Lexemes(Document(<<Obj(BaseDiagnostic)>>)),
   Lexemes(Document(<<Obj(With(BaseDiagnostic, "message", Poison))>>))}

InitCli ==
  /\ cli \in [input : CliPaths, output : CliPaths, flag : {"none", "--version", "--help"},
              isTTY : BOOLEAN, fileReadable : BOOLEAN, stdinFails : BOOLEAN, outputWritable : BOOLEAN,
              content : CliContents]
  /\ proc = [stderr |-> <<>>, stdout |-> NoOutput, file |-> NoOutput, exited |-> FALSE, exitCode |-> 0]
  /\ text = <<>>
  /\ pc = "main"
  /\ parsed = Undef
  /\ error = "none"
  /\ cause = "none"
  /\ report = NoReport
  /\ toolVersion = Undef
  /\ driver = NoDriver
  /\ processed = 0
  /\ ruleIndexMap = <<>>
  /\ rules = <<>>
  /\ results = <<>>
  /\ log = NoLog
  /\ indent = 2
  /\ output = NoOutput
  /\ calls = 0

SpecCli == InitCli /\ [][NextCli]_vars

\* the input was acquired: the file of a non-empty --input was read, or the
\* standard input is piped and was read
InputAcquired ==
  /\ cli.flag = "none"
  /\ IF cli.input.k = "str" /\ Len(cli.input.v) > 0 THEN cli.fileReadable ELSE ~cli.isTTY /\ ~cli.stdinFails

ConversionSucceeded == InputAcquired /\ parseOxlintJson(cli.content).error = "none"

OutputWritten ==
  /\ ConversionSucceeded
  /\ (cli.output.k = "str" /\ Len(cli.output.v) > 0) => cli.outputWritable

\* the message of the stage that failed
FailedStage ==
  IF cli.input.k = "str" /\ Len(cli.input.v) > 0 /\ ~cli.fileReadable THEN "Cannot read input file"
  ELSE IF ~InputAcquired /\ cli.isTTY THEN "No input provided"
  ELSE IF ~InputAcquired THEN "Failed to read from stdin"
  ELSE IF ~ConversionSucceeded THEN "Conversion failed"
  ELSE "Cannot write output file"

\* C17 (amended): apart from --version and --help, which print and end
\* with exit code 0, the CLI ends with exit code 0 exactly when the input
\* was acquired, the conversion succeeded and the output was written, and
\* then the error stream is empty; in every other case the error stream
\* holds the one message of the stage that failed and the exit code is 1
C17_ExitCode ==
  (pc = "exited" /\ proc.exited) =>
    /\ proc.exitCode \in {0, 1}
    /\ cli.flag # "none" => (proc.exitCode = 0 /\ proc.stderr = <<>>)
    /\ cli.flag = "none" => (proc.exitCode = 0 <=> OutputWritten)
    /\ proc.exitCode = 0 => proc.stderr = <<>>
    /\ (proc.exitCode = 0 /\ cli.flag = "none") =>
         (IF Truthy(cli.output) THEN proc.file # NoOutput ELSE proc.stdout # NoOutput)
    /\ proc.exitCode = 1 => proc.stderr = <<FailedStage>>

\* C17 as claimed: the exit code is 0 exactly when the input was acquired,
\* the conversion succeeded and the output was written
C17_AsClaimed ==
  (pc = "exited" /\ proc.exited) =>
    /\ proc.exitCode = 0 <=> OutputWritten
    /\ proc.exitCode = 0 => proc.stderr = <<>>
    /\ proc.exitCode # 0 => (proc.exitCode = 1 /\ proc.stderr = <<FailedStage>>)

C17_Witness ==
  /\ pc = "exited"
  /\ cli.flag = "none"
  /\ cli.input = Undef
  /\ ~cli.isTTY
  /\ Truthy(cli.output)
  /\ ~cli.outputWritable
  /\ error = "none"
  /\ proc.exitCode = 1
  /\ proc.stderr = <<"Cannot write output file">>

(***************************************************************************)
(* SpecDefaults: documents that omit some of the fields that have a        *)
(* default, the others holding a value that is not the default             *)
(***************************************************************************)
GivenMetadata == [number_of_files |-> Num(5), number_of_rules |-> Num(7), threads_count |-> Num(4), start_time |-> Num(8)]

GivenSpan == [offset |-> Num(9), length |-> Num(5), line |-> Num(3), column |-> Num(4)]

\* the record r cut down to the members named in keys
Restrict(r, keys) == [f \in DOMAIN r \cap keys |-> r[f]]

\* labels without a span and with a span holding some of its fields
DefaultsLabels ==
  {Obj([label |-> Str(sT)])} \cup {Obj([span |-> Obj(Restrict(GivenSpan, keys))]) : keys \in SUBSET DOMAIN GivenSpan}

DefaultsDiagnostics ==
  {Obj(BaseDiagnostic), Obj(With(BaseDiagnostic, "causes", Arr(<<Str(sM)>>))),
   Obj(With(BaseDiagnostic, "related", Arr(<<Obj([message |-> Str(sM)])>>))),
   Obj(With(With(BaseDiagnostic, "labels", Arr(<<>>)), "related",
            Arr(<<Obj([labels |-> Arr(<<Obj([span |-> Obj([line |-> Num(3)])])>>)])>>)))}
    \cup {Obj(With(BaseDiagnostic, "labels", Arr(<<l>>))) : l \in DefaultsLabels}

InitDefaults ==
  \/ \E keys \in SUBSET DOMAIN GivenMetadata :
       Start(Lexemes(Obj(With(Restrict(GivenMetadata, keys), "diagnostics", Arr(<<Obj(BaseDiagnostic)>>)))))
  \/ \E d \in DefaultsDiagnostics : Start(Lexemes(Document(<<d>>)))

SpecDefaults == InitDefaults /\ [][Next]_vars

\* the defaults the claim names
MetadataDefaults == [number_of_files |-> Num(0), number_of_rules |-> Null, threads_count |-> Num(1), start_time |-> Num(0)]

SpanDefaults == [offset |-> Num(0), length |-> Num(0), line |-> Num(1), column |-> Num(1)]

SequenceDefaults == [causes |-> Arr(<<>>), labels |-> Arr(<<>>), related |-> Arr(<<>>)]

DefaultedFields == DOMAIN MetadataDefaults \cup DOMAIN SpanDefaults \cup DOMAIN SequenceDefaults

\* the record r with its default given to every member it omits among those named in keys
Explicit(r, defaults, keys) ==
  [f \in DOMAIN r \cup (DOMAIN defaults \cap keys) |-> IF f \in DOMAIN r THEN r[f] ELSE defaults[f]]

ExplicitLabel(l, keys) ==
  IF l.k # "obj" THEN l
  ELSE IF "span" \in DOMAIN l.v /\ l.v["span"].k = "obj"
  THEN Obj(With(l.v, "span", Obj(Explicit(l.v["span"].v, SpanDefaults, keys))))
  ELSE IF "span" \notin DOMAIN l.v /\ DOMAIN SpanDefaults \cap keys # {}
  THEN Obj(With(l.v, "span", Obj(Explicit(EmptyObject, SpanDefaults, keys))))
  ELSE l

ExplicitLabels(raw, keys) ==
  IF raw.k # "arr" THEN raw ELSE Arr([i \in 1..Len(raw.v) |-> ExplicitLabel(raw.v[i], keys)])

ExplicitRelated(r, keys) ==
  IF r.k = "obj" /\ "labels" \in DOMAIN r.v THEN Obj(With(r.v, "labels", ExplicitLabels(r.v["labels"], keys))) ELSE r

ExplicitDiagnostic(d, keys) ==
  IF d.k # "obj" THEN d
  ELSE LET withAll == Explicit(d.v, SequenceDefaults, keys)
       IN Obj([f \in DOMAIN withAll |->
                 IF f = "labels" THEN ExplicitLabels(withAll[f], keys)
                 ELSE IF f = "related" /\ withAll[f].k = "arr"
                 THEN Arr([i \in 1..Len(withAll[f].v) |-> ExplicitRelated(withAll[f].v[i], keys)])
                 ELSE withAll[f]])

\* the document with the omitted fields named in keys given their defaults
ExplicitDocument(doc, keys) ==
  LET withAll == Explicit(doc.v, MetadataDefaults, keys)
  IN Obj(With(withAll, "diagnostics",
              Arr([i \in 1..Len(doc.v["diagnostics"].v) |-> ExplicitDiagnostic(doc.v["diagnostics"].v[i], keys)])))

\* C18: a document that omits a field with a default, and the same document
\* with the default given for that field (threads_count 1, number_of_files
\* 0, start_time 0, number_of_rules null, span offset 0, length 0, line 1,
\* column 1, causes, labels and related empty), or for all such fields at
\* once, parse to equal Reports
C18_DefaultingIdempotent ==
  pc = "parsed" =>
    \A keys \in {{f} : f \in DefaultedFields} \cup {DefaultedFields} :
      /\ parseOxlintJson(Lexemes(ExplicitDocument(parsed, keys))).error = "none"
      /\ parseOxlintJson(Lexemes(ExplicitDocument(parsed, keys))).report = report

C18_Witness ==
  /\ pc = "parsed"
  /\ DOMAIN parsed.v = {"diagnostics"}
  /\ "labels" \in DOMAIN parsed.v["diagnostics"].v[1].v
  /\ parsed.v["diagnostics"].v[1].v["labels"] = Arr(<<Obj([label |-> Str(sT)])>>)
  /\ report.threads_count = Num(1)
  /\ report.diagnostics[1].labels[1].span = SpanDefaults
  /\ ExplicitDocument(parsed, {"line"}) # parsed
  /\ ExplicitDocument(parsed, {"threads_count"}) # parsed

(***************************************************************************)
(* SpecSpans: a diagnostic whose label, and whose related entry's label,   *)
(* has a span with each field missing, a number or a string                *)
(***************************************************************************)
RawSpanValues == {Num(7), Str(sM)}

RawSpans ==
  {Restrict(values, keys) : values \in [SpanFields -> RawSpanValues], keys \in SUBSET SpanFields}
    \cup {[offset |-> Null, length |-> Str(<<"1", "2">>), line |-> Num(0), column |-> Num(-1)]}

SpanDiagnostic(span) ==
  Obj(With(With(BaseDiagnostic, "labels", Arr(<<Obj([span |-> Obj(span)])>>)), "related",
           Arr(<<Obj([labels |-> Arr(<<Obj([span |-> Obj(span)]), Obj([label |-> Str(sT)])>>)])>>)))

InitSpans == \E span \in RawSpans : Start(Lexemes(Document(<<SpanDiagnostic(span)>>)))

SpecSpans == InitSpans /\ [][Next]_vars

\* a raw span field that is missing, null, or not read as a number
NonNumeric(raw) == raw.k \in {"undef", "null"} \/ ToNum(raw) = NaN

\* the span the claim gives the raw label l: per field the default when the
\* raw field is missing or non-numeric, the raw number otherwise
ClaimedSpan(l) ==
  [f \in SpanFields |->
     IF NonNumeric(OptProp(GetProp(l, "span"), f)) THEN SpanDefaults[f] ELSE ToNum(OptProp(GetProp(l, "span"), f))]

\* the raw label objects of a raw labels member
RawLabelObjects(raw) == IF IsArray(raw) THEN SelectSeq(raw.v, IsObjectLike) ELSE <<>>

\* C19: in every Label of the Report, in a diagnostic's labels or in a
\* related entry's labels, each span field is its default (offset 0, length
\* 0, line 1, column 1) when the raw field is missing or non-numeric, and
\* the raw number otherwise, independently of the other fields
C19_SpanFieldDefaults ==
  pc = "parsed" =>
    \A i \in 1..Len(report.diagnostics) :
      LET raw == AdmittedEntries[i]
          rawRelated == SelectSeq(GetProp(raw, "related").v, IsObjectLike)
      IN /\ \A j \in 1..Len(report.diagnostics[i].labels) :
              report.diagnostics[i].labels[j].span = ClaimedSpan(RawLabelObjects(GetProp(raw, "labels"))[j])
         /\ \A k \in 1..Len(report.diagnostics[i].related) :
              report.diagnostics[i].related[k].labels.k = "arr" =>
                \A j \in 1..Len(report.diagnostics[i].related[k].labels.v) :
                  report.diagnostics[i].related[k].labels.v[j].span
                    = ClaimedSpan(RawLabelObjects(GetProp(rawRelated[k], "labels"))[j])

(***************************************************************************)
(* SpecMetadata: a document with one diagnostic and each metadata member   *)
(* missing, null, a number or a string                                     *)
(***************************************************************************)
RawMetadataValues == {Null, Num(5), Num(-3), Str(sM)}

MetadataFields == {"number_of_files", "number_of_rules", "threads_count", "start_time"}

RawMetadata == {Restrict(values, keys) : values \in [MetadataFields -> RawMetadataValues], keys \in SUBSET MetadataFields}

InitMetadata ==
  \E metadata \in RawMetadata : Start(Lexemes(Obj(With(metadata, "diagnostics", Arr(<<Obj(BaseDiagnostic)>>)))))

SpecMetadata == InitMetadata /\ [][Next]_vars

IsNonNegativeInteger(x) == x.k = "num" /\ x.v \in Nat

\* C20: in every Report, number_of_files is a non-negative integer, 0 when
\* the raw member is absent or invalid; threads_count is a non-negative
\* integer, 1 when absent; start_time is 0 when absent; number_of_rules is
\* null exactly when the raw member is null or missing, a number otherwise
C20_MetadataInvariants ==
  pc = "parsed" =>
    /\ IsNonNegativeInteger(report.number_of_files)
    /\ ~IsNonNegativeInteger(ToNum(Coalesce(GetProp(parsed, "number_of_files"), Num(0))))
         => report.number_of_files = Num(0)
    /\ IsNonNegativeInteger(report.threads_count)
    /\ GetProp(parsed, "threads_count") = Undef => report.threads_count = Num(1)
    /\ GetProp(parsed, "start_time") = Undef => report.start_time = Num(0)
    /\ report.number_of_rules = Null <=> GetProp(parsed, "number_of_rules") \in {Null, Undef}
    /\ report.number_of_rules # Null => report.number_of_rules.k \in {"num", "nan"}

(***************************************************************************)
(* SpecRegions: texts of one diagnostic with two labels whose line and     *)
(* column are missing, zero, negative, positive or a string, passed        *)
(* through convertOxlintToSarif                                            *)
(***************************************************************************)
RawLineValues == {Num(0), Num(-1), Num(3), Str(sM)}

RegionSpans ==
  {Restrict([line |-> line, column |-> column, length |-> Num(2)], keys) :
     line \in RawLineValues, column \in RawLineValues, keys \in {{"line", "column", "length"}, {"line"}, {"column"}, {}}}

InitRegions ==
  \E span \in RegionSpans :
    Start(Lexemes(Document(<<Obj(With(BaseDiagnostic, "labels", Arr(<<Obj([span |-> Obj(span)]), Obj([span |-> Obj(span)])>>)))>>)))

SpecRegions == InitRegions /\ [][NextConvertOxlintToSarif]_vars

\* the regions of the locations and related locations of the results of a decoded log
DecodedRegions(decoded) ==
  LET resultList == decoded.v["runs"].v[1].v["results"].v
      LocationsOf(result) ==
        result.v["locations"].v
          \o (IF "relatedLocations" \in DOMAIN result.v THEN result.v["relatedLocations"].v ELSE <<>>)
      RegionsOf(locations) ==
        {locations[j].v["physicalLocation"].v["region"] :
           j \in {k \in 1..Len(locations) : "region" \in DOMAIN locations[k].v["physicalLocation"].v}}
  IN UNION {RegionsOf(LocationsOf(resultList[i])) : i \in 1..Len(resultList)}

\* C21: in the output of convertOxlintToSarif on an accepted text, every
\* region of every result location has a startLine that is an integer
\* greater than or equal to 1, and every startColumn that is present is an
\* integer greater than or equal to 1
C21_RegionsArePositive ==
  pc = "returned" =>
    \A region \in DecodedRegions(JSONParse(output).val) :
      /\ "startLine" \in DOMAIN region.v
      /\ region.v["startLine"].k = "num"
      /\ region.v["startLine"].v >= 1
      /\ "startColumn" \in DOMAIN region.v =>
           region.v["startColumn"].k = "num" /\ region.v["startColumn"].v >= 1

(***************************************************************************)
(* SpecRules: Reports of up to MaxRuleDiags diagnostics whose codes        *)
(* repeat, are empty or are the literal "UnknownRule", with and without    *)
(* url and help                                                            *)
(***************************************************************************)
MaxRuleDiags == 3

RuleDiagnostic(code, members) == Obj(members @@ With(BaseDiagnostic, "code", Str(code)))

RuleEntries ==
  {RuleDiagnostic(sR, EmptyObject),
   RuleDiagnostic(sR, [url |-> Str(sU), help |-> Str(sH)]),
   RuleDiagnostic(sQ, [url |-> Str(sU)]),
   RuleDiagnostic(<<>>, [help |-> Str(sH)]),
   RuleDiagnostic(<<>>, EmptyObject),
   RuleDiagnostic(UnknownRule, [url |-> Str(sT), help |-> Str(sT)])}

InitRules == \E entries \in SeqsUpTo(RuleEntries, MaxRuleDiags) : Start(Lexemes(Document(entries)))

SpecRules == InitRules /\ [][Next]_vars

\* the rule identifiers of the first n diagnostics of the Report
SeenIds(n) == {ExpectedRuleId(report.diagnostics[i]) : i \in 1..n}

\* the position of the first diagnostic carrying the identifier
FirstSeen(id) ==
  CHOOSE i \in 1..Len(report.diagnostics) :
    /\ ExpectedRuleId(report.diagnostics[i]) = id
    /\ \A j \in 1..(i - 1) : ExpectedRuleId(report.diagnostics[j]) # id

RegistryIsFirstSeenOrder ==
  pc = "loop" =>
    /\ DOMAIN ruleIndexMap = SeenIds(processed)
    /\ Cardinality(DOMAIN ruleIndexMap) = Len(rules)
    /\ {ruleIndexMap[id] : id \in DOMAIN ruleIndexMap} = 0..(Len(rules) - 1)
    /\ \A id \in DOMAIN ruleIndexMap : rules[ruleIndexMap[id] + 1].id = id
    /\ \A id1, id2 \in DOMAIN ruleIndexMap :
         FirstSeen(id1) < FirstSeen(id2) => ruleIndexMap[id1] < ruleIndexMap[id2]

RegistryIndexKept ==
  (pc = "loop" /\ pc' = "loop") =>
    /\ Len(rules') \in {Len(rules), Len(rules) + 1}
    /\ \A id \in DOMAIN ruleIndexMap : id \in DOMAIN ruleIndexMap' /\ ruleIndexMap'[id] = ruleIndexMap[id]

\* C22: after any prefix of the diagnostics has been processed, the rule
\* registry maps every rule identifier seen so far (the code, or
\* "UnknownRule" for an empty code) to its zero-based first-seen position:
\* its size is the number of descriptors added, its indices are exactly
\* 0..size-1, the rules list is in first-seen order, and an index once
\* assigned never changes
C22_RuleRegistry == [](RegistryIsFirstSeenOrder) /\ [][RegistryIndexKept]_vars

C22_Witness ==
  /\ pc = "loop"
  /\ processed = 3
  /\ Len(rules) = 2
  /\ report.diagnostics[1].code = sR
  /\ report.diagnostics[2].code = <<>>
  /\ report.diagnostics[3].code = sR
  /\ ruleIndexMap[sR] = 0
  /\ ruleIndexMap[UnknownRule] = 1

(***************************************************************************)
(* SpecDescriptors: Reports of up to MaxDescriptorDiags diagnostics whose  *)
(* url and help are missing, empty or non-empty                            *)
(***************************************************************************)
MaxDescriptorDiags == 2

OptionalTexts(key, t) == {EmptyObject, key :> Str(t), key :> Str(<<>>)}

DescriptorEntries ==
  {RuleDiagnostic(sR, url @@ help) : url \in OptionalTexts("url", sU), help \in OptionalTexts("help", sH)}
    \cup {RuleDiagnostic(sQ, [url |-> Str(sT), help |-> Str(sT)])}

InitDescriptors == \E entries \in SeqsUpTo(DescriptorEntries, MaxDescriptorDiags) : Start(Lexemes(Document(entries)))

SpecDescriptors == InitDescriptors /\ [][Next]_vars

\* the rule descriptors of the log
LogRules == log.runs[1].tool.driver.rules

NonEmptyString(x) == x.k = "str" /\ Len(x.v) > 0

\* C23 (amended): the descriptor of a rule identifier has id and short
\* description equal to the identifier, helpUri equal to the url of the
\* first diagnostic carrying the identifier when that url is present and
\* not the empty string and no helpUri otherwise, and help.text equal to
\* that diagnostic's help when it is present and not the empty string and
\* no help otherwise
C23_RuleDescriptor ==
  pc = "done" =>
    /\ {LogRules[i].id : i \in 1..Len(LogRules)} = SeenIds(Len(report.diagnostics))
    /\ \A i \in 1..Len(LogRules) :
         LET rule == LogRules[i]
             diagnostic == report.diagnostics[FirstSeen(rule.id)]
         IN /\ rule.shortDescription.text = rule.id
            /\ "helpUri" \in DOMAIN rule <=> NonEmptyString(diagnostic.url)
            /\ "helpUri" \in DOMAIN rule => rule.helpUri = diagnostic.url.v
            /\ "help" \in DOMAIN rule <=> NonEmptyString(diagnostic.help)
            /\ "help" \in DOMAIN rule => rule.help.text = diagnostic.help.v

\* C23 as claimed: helpUri and help are set whenever the url and the help are present
C23_AsClaimed ==
  pc = "done" =>
    \A i \in 1..Len(LogRules) :
      LET rule == LogRules[i]
          diagnostic == report.diagnostics[FirstSeen(rule.id)]
      IN /\ rule.shortDescription.text = rule.id
         /\ "helpUri" \in DOMAIN rule <=> diagnostic.url # Undef
         /\ "help" \in DOMAIN rule <=> diagnostic.help # Undef

C23_Witness ==
  /\ pc = "done"
  /\ Len(report.diagnostics) = 2
  /\ Len(LogRules) = 2
  /\ report.diagnostics[1].url = Undef
  /\ report.diagnostics[1].help = Str(sH)
  /\ LogRules[1] = [id |-> sR, shortDescription |-> [text |-> sR], help |-> [text |-> sH]]
  /\ LogRules[2] = [id |-> sQ, shortDescription |-> [text |-> sQ], helpUri |-> sT, help |-> [text |-> sT]]

(***************************************************************************)
(* SpecOptional: one diagnostic whose url and help are missing or hold a   *)
(* value of any JSON type                                                  *)
(***************************************************************************)
RawOptionalValues == {Str(sU), Str(<<>>), Null, Num(0), Bool(TRUE), Arr(<<Num(1), Null>>), Obj(EmptyObject), Poison}

RawOptionals(key) == {EmptyObject} \cup {key :> value : value \in RawOptionalValues}

InitOptional ==
  \E url \in RawOptionals("url"), help \in RawOptionals("help") :
    Start(Lexemes(Document(<<Obj(url @@ help @@ BaseDiagnostic)>>)))

SpecOptional == InitOptional /\ [][Next]_vars

\* the string forms of the raw values, as JavaScript's String() gives them
StringForm(raw) ==
  CASE raw.k = "str" -> raw.v
    [] raw = Null -> <<"n", "u", "l", "l">>
    [] raw = Num(0) -> <<"0">>
    [] raw = Bool(TRUE) -> <<"t", "r", "u", "e">>
    [] raw = Arr(<<Num(1), Null>>) -> <<"1", ",">>
    [] raw = Obj(EmptyObject) -> <<"[", "o", "b", "j", "e", "c", "t", " ", "O", "b", "j", "e", "c", "t", "]">>

\* C24: in every diagnostic of the Report, url and help are each undefined
\* exactly when the raw member is absent, and otherwise are the string form
\* of the raw value, whatever its type, null included
C24_OptionalStrings ==
  pc = "parsed" =>
    /\ Len(report.diagnostics) = Len(AdmittedEntries)
    /\ \A i \in 1..Len(report.diagnostics) :
         \A key \in {"url", "help"} :
           /\ report.diagnostics[i][key] = Undef <=> key \notin DOMAIN AdmittedEntries[i].v
           /\ key \in DOMAIN AdmittedEntries[i].v =>
                report.diagnostics[i][key] = Str(StringForm(AdmittedEntries[i].v[key]))

C24_Witness ==
  /\ pc = "parsed"
  /\ Len(report.diagnostics) = 1
  /\ "url" \in DOMAIN AdmittedEntries[1].v
  /\ AdmittedEntries[1].v["url"] = Null
  /\ "help" \notin DOMAIN AdmittedEntries[1].v
  /\ report.diagnostics[1].url = Str(<<"n", "u", "l", "l">>)
  /\ report.diagnostics[1].help = Undef

(***************************************************************************)
(* SpecSequences: one diagnostic whose causes, labels and related are      *)
(* missing, not a sequence, or a sequence with elements of every JSON type *)
(***************************************************************************)
MixedLabels ==
  Arr(<<Obj([span |-> Obj([line |-> Num(3)]), label |-> Str(sT)]), Null, Num(1),
        Obj([span |-> Obj([line |-> Num(4)]), label |-> Num(1)]), Str(sM), Arr(<<>>), Obj([label |-> Str(<<>>)])>>)

RawCauses == {Null, Str(sM), Obj(EmptyObject), Arr(<<>>), Arr(<<Str(sM), Num(0), Null, Bool(TRUE), Obj(EmptyObject), Str(sH)>>)}

RawLabelSequences == {Null, Str(sM), Obj(EmptyObject), Arr(<<>>), MixedLabels}

RawRelated ==
  {Null, Obj(EmptyObject), Arr(<<>>),
   Arr(<<Obj([message |-> Str(sM), labels |-> MixedLabels]), Null, Num(1), Obj([message |-> Num(0), labels |-> Null]),
         Arr(<<>>), Obj(EmptyObject), Obj([message |-> Null, labels |-> Arr(<<>>)])>>)}

InitSequences ==
  \E causes \in {EmptyObject} \cup {"causes" :> value : value \in RawCauses},
     labels \in {EmptyObject} \cup {"labels" :> value : value \in RawLabelSequences},
     related \in {EmptyObject} \cup {"related" :> value : value \in RawRelated} :
    Start(Lexemes(Document(<<Obj(causes @@ labels @@ related @@ BaseDiagnostic)>>)))

SpecSequences == InitSequences /\ [][Next]_vars

\* the parsed labels are one Label per raw element that is a non-null
\* object, in order, each with its label text kept only when it is a string
LabelsAsClaimed(labels, raw) ==
  /\ Len(labels) = Len(RawLabelObjects(raw))
  /\ \A j \in 1..Len(labels) :
       LET rawLabel == RawLabelObjects(raw)[j] IN
       /\ labels[j].label = (IF GetProp(rawLabel, "label").k = "str" THEN GetProp(rawLabel, "label") ELSE Undef)
       /\ labels[j].span.line = Coalesce(OptProp(GetProp(rawLabel, "span"), "line"), Num(1))

\* C25: in every diagnostic of the Report, causes, labels and related are
\* empty when the raw value is not a sequence; otherwise causes holds the
\* string form of every raw element in order, labels holds one Label per
\* raw element that is a non-null object, order kept, its label text kept
\* only when already a string, and related holds one entry per raw element
\* that is a non-null object, its message the string form of the raw
\* message when present, its labels parsed by the same rules, or undefined
\* when the raw labels are not a sequence
C25_SequenceFields ==
  pc = "parsed" =>
    \A i \in 1..Len(report.diagnostics) :
      LET raw == AdmittedEntries[i]
          diagnostic == report.diagnostics[i]
          rawRelated == RawLabelObjects(GetProp(raw, "related"))
      IN /\ IF IsArray(GetProp(raw, "causes"))
            THEN /\ Len(diagnostic.causes) = Len(raw.v["causes"].v)
                 /\ \A j \in 1..Len(diagnostic.causes) : diagnostic.causes[j] = StringForm(raw.v["causes"].v[j])
            ELSE diagnostic.causes = <<>>
         /\ IF IsArray(GetProp(raw, "labels"))
            THEN LabelsAsClaimed(diagnostic.labels, raw.v["labels"])
            ELSE diagnostic.labels = <<>>
         /\ Len(diagnostic.related) = Len(rawRelated)
         /\ \A k \in 1..Len(diagnostic.related) :
              /\ diagnostic.related[k].message =
                   (IF GetProp(rawRelated[k], "message") = Undef THEN Undef
                    ELSE Str(StringForm(GetProp(rawRelated[k], "message"))))
              /\ IF IsArray(GetProp(rawRelated[k], "labels"))
                 THEN /\ diagnostic.related[k].labels.k = "arr"
                      /\ LabelsAsClaimed(diagnostic.related[k].labels.v, GetProp(rawRelated[k], "labels"))
                 ELSE diagnostic.related[k].labels = Undef

C25_Witness ==
  /\ pc = "parsed"
  /\ Len(report.diagnostics) = 1
  /\ GetProp(AdmittedEntries[1], "labels") = MixedLabels
  /\ GetProp(AdmittedEntries[1], "causes").k = "arr"
  /\ Len(report.diagnostics[1].causes) = 6
  /\ Len(report.diagnostics[1].labels) = 4
  /\ report.diagnostics[1].labels[2].label = Undef
  /\ Len(report.diagnostics[1].related) = 5
  /\ report.diagnostics[1].related[2].labels = Undef
  /\ report.diagnostics[1].related[1].labels.k = "arr"
  /\ Len(report.diagnostics[1].related[1].labels.v) = 4

\* the position of a step in the order acquire input, convert, emit output
StepRank(p) ==
  CASE p = "main" -> 0
    [] p = "input" -> 1
    [] p = "start" -> 2
    [] p \in {"parsed", "failed"} -> 3
    [] p = "loop" -> 4
    [] p \in {"done", "raised"} -> 5
    [] p = "returned" -> 6
    [] p = "exited" -> 7

OutputPathGiven == cli.output.k = "str" /\ Len(cli.output.v) > 0

\* a step never goes back, the conversion runs on the acquired input only,
\* and the outputs change only in the step after the conversion
StepsInOrder ==
  /\ StepRank(pc') >= StepRank(pc)
  /\ (pc' = "start" /\ pc # "start") => (pc = "input" /\ text' = cli.content)
  /\ (cli.flag = "none" /\ (proc'.file # proc.file \/ proc'.stdout # proc.stdout)) => pc = "returned"

WrittenInOrder ==
  /\ pc \in {"start", "parsed", "failed", "loop", "done", "raised", "returned"} => (InputAcquired /\ text = cli.content)
  /\ cli.flag = "none" =>
       /\ (proc.file # NoOutput \/ proc.stdout # NoOutput) => (pc = "exited" /\ ConversionSucceeded /\ output # NoOutput)
       /\ ~(proc.file # NoOutput /\ proc.stdout # NoOutput)
       /\ proc.file # NoOutput => (OutputPathGiven /\ proc.file = output)
       /\ proc.stdout # NoOutput => (~OutputPathGiven /\ proc.stdout = Str(output \o <<Ws>>))
       /\ (pc = "exited" /\ proc.exitCode = 0) =>
            (IF OutputPathGiven THEN proc.file = output ELSE proc.stdout = Str(output \o <<Ws>>))
  /\ cli.flag # "none" => (proc.file = NoOutput /\ pc \in {"main", "exited"})

\* C26 (amended): apart from --version and --help, which print the version
\* or the usage to the standard output, the steps of a CLI run occur in the
\* order acquire input, convert, emit output: nothing is written to the
\* output file or to the standard output unless the input was read and the
\* conversion succeeded, and the SARIF text is written to exactly one
\* destination, the --output file when that option is given with a
\* non-empty path and the standard output otherwise, never both
C26_StepOrder == [](WrittenInOrder) /\ [][StepsInOrder]_vars

\* C26 as claimed: in every run nothing is written to the standard output
\* unless the input was read and the conversion succeeded, and the text goes
\* to the --output file whenever that option is given
C26_AsClaimed ==
  /\ (proc.file # NoOutput \/ proc.stdout # NoOutput) => ConversionSucceeded
  /\ ~(proc.file # NoOutput /\ proc.stdout # NoOutput)
  /\ proc.stdout # NoOutput => cli.output = Undef

C26_Witness ==
  /\ pc = "exited"
  /\ cli.flag = "none"
  /\ OutputPathGiven
  /\ ConversionSucceeded
  /\ output # NoOutput
  /\ proc.file = output
  /\ proc.stdout = NoOutput

(***************************************************************************)
(* cli.ts: readStdin, event by event.  cli.events is what the piped        *)
(* standard input delivers: data events, then one end or error event.      *)
(* proc.chunks is the array of readStdin, proc.consumed the number of      *)
(* events handled, proc.listening whether readStdin was called.            *)
(***************************************************************************)
Data(chunk) == [k |-> "data", v |-> chunk]

End == [k |-> "end", v |-> <<>>]

Failure == [k |-> "error", v |-> <<>>]

\* mutation of pushChunk: the chunk is put in front
pushChunkInFront(chunks, chunk) == <<chunk>> \o chunks

\* chunks.push(chunk)
pushChunk(chunks, chunk) == Append(chunks, chunk)

\* Buffer.concat(chunks).toString('utf-8')
RECURSIVE Concat(_)
Concat(chunks) == IF chunks = <<>> THEN <<>> ELSE Head(chunks) \o Concat(Tail(chunks))

\* the input source of main(): the file of --input, an error on a
\* terminal, or the listeners of readStdin on the piped standard input
CliOpenInput ==
  /\ pc = "input"
  /\ IF Truthy(cli.input)
     THEN IF cli.fileReadable
          THEN text' = cli.content /\ pc' = "start" /\ proc' = proc
          ELSE proc' = Fail("Cannot read input file") /\ pc' = "exited" /\ text' = text
     ELSE IF cli.isTTY
     THEN proc' = Fail("No input provided") /\ pc' = "exited" /\ text' = text
     ELSE proc' = [proc EXCEPT !.listening = TRUE] /\ pc' = "stdin" /\ text' = text
  /\ UNCHANGED cli
  /\ UNCHANGED libraryVars

\* the next event of the standard input is of the given kind
StdinDelivers(kind) ==
  /\ pc = "stdin"
  /\ proc.consumed < Len(cli.events)
  /\ cli.events[proc.consumed + 1].k = kind

\* process.stdin.on('data', (chunk) => chunks.push(chunk))
StdinData ==
  /\ StdinDelivers("data")
  /\ proc' = [proc EXCEPT !.chunks = pushChunk(@, cli.events[proc.consumed + 1].v), !.consumed = @ + 1]
  /\ UNCHANGED <<pc, text, cli>>
  /\ UNCHANGED libraryVars

\* process.stdin.on('end', () => resolve(...)): main() goes on with the text
StdinEnd ==
  /\ StdinDelivers("end")
  /\ text' = Concat(proc.chunks)
  /\ proc' = [proc EXCEPT !.consumed = @ + 1]
  /\ pc' = "start"
  /\ UNCHANGED cli
  /\ UNCHANGED libraryVars

\* process.stdin.on('error', reject): the catch of main() ends the process
StdinError ==
  /\ StdinDelivers("error")
  /\ proc' = [Fail("Failed to read from stdin") EXCEPT !.consumed = @ + 1]
  /\ pc' = "exited"
  /\ UNCHANGED <<text, cli>>
  /\ UNCHANGED libraryVars

NextStdin ==
  \/ CliParseArgs
  \/ CliOpenInput
  \/ StdinData
  \/ StdinEnd
  \/ StdinError
  \/ Parse
  \/ ConvertBeginWith(Undef)
  \/ ConvertDiagnostic
  \/ ConvertEnd
  \/ SerializeWith(2)
  \/ CliConversionFailed
  \/ CliWriteOutput

\* what the standard input holds
StdinContents == {<<>>, <<LBrace, Bad>>, Lexemes(Document(<<Obj(BaseDiagnostic)>>))}

\* the content cut into one, two or three chunks
Chunkings(content) ==
  LET cuts == {1, Len(content) \div 2, Len(content) - 1} \cap 1..(Len(content) - 1) IN
  {<<content>>}
    \cup {<<SubSeq(content, 1, i), SubSeq(content, i + 1, Len(content))>> : i \in cuts}
    \cup {<<SubSeq(content, 1, p[1]), SubSeq(content, p[1] + 1, p[2]), SubSeq(content, p[2] + 1, Len(content))>> :
            p \in {q \in cuts \X cuts : q[1] < q[2]}}

DataEvents(chunks) == [i \in 1..Len(chunks) |-> Data(chunks[i])]

\* a stream delivers all chunks and ends, or fails after some of them
Streams ==
  {<<End>>, <<Failure>>}
    \cup UNION {{DataEvents(chunks) \o <<End>>} \cup {DataEvents(SubSeq(chunks, 1, n)) \o <<Failure>> : n \in 0..Len(chunks)} :
                  chunks \in UNION {Chunkings(content) : content \in StdinContents}}

\* let sarifOutput: string, not yet assigned
NoText == <<>>

InitStdin ==
  /\ cli \in [input : CliPaths, output : {Undef}, flag : {"none"}, isTTY : BOOLEAN, fileReadable : BOOLEAN,
              outputWritable : {TRUE}, content : {Lexemes(Document(<<>>))}, events : Streams]
  /\ proc = [stderr |-> <<>>, stdout |-> NoOutput, file |-> NoOutput, exited |-> FALSE, exitCode |-> 0,
             chunks |-> <<>>, consumed |-> 0, listening |-> FALSE]
  /\ text = <<>>
  /\ pc = "main"
  /\ parsed = Undef
  /\ error = "none"
  /\ cause = "none"
  /\ report = NoReport
  /\ toolVersion = Undef
  /\ driver = NoDriver
  /\ processed = 0
  /\ ruleIndexMap = <<>>
  /\ rules = <<>>
  /\ results = <<>>
  /\ log = NoLog
  /\ indent = 2
  /\ output = NoText
  /\ calls = 0

\* the steps of main() and of the handlers of readStdin, but for the two
\* calls into the library that follow
MainSteps ==
  \/ CliParseArgs
  \/ CliOpenInput
  \/ StdinData
  \/ StdinEnd
  \/ StdinError
  \/ ConvertBeginWith(Undef)
  \/ ConvertDiagnostic
  \/ ConvertEnd
  \/ CliConversionFailed
  \/ CliWriteOutput

\* the synchronous calls parseOxlintJson and JSON.stringify return
ParseReturns == pc = "start" /\ pc' \in {"parsed", "failed"}

SerializeReturns == pc = "done" /\ pc' = "returned"

\* what every step of main() advances
progress == <<pc, processed, proc.consumed>>

\* the event loop runs every handler whose event has arrived, main() runs
\* on after every await, and a synchronous call returns
SpecStdin ==
  InitStdin /\ [][NextStdin]_vars /\ WF_progress(MainSteps) /\ WF_pc(ParseReturns) /\ WF_pc(SerializeReturns)

\* the chunks of the data events of a stream, joined in arrival order
RECURSIVE InArrivalOrder(_)
InArrivalOrder(events) ==
  IF events = <<>> THEN <<>>
  ELSE (IF Head(events).k = "data" THEN Head(events).v ELSE <<>>) \o InArrivalOrder(Tail(events))

Converting == pc \in {"start", "parsed", "failed", "loop", "done", "raised", "returned"}

InputPathGiven == cli.input.k = "str" /\ Len(cli.input.v) > 0

StreamFails == cli.events[Len(cli.events)].k = "error"

StdinHandedOver ==
  /\ (proc.listening /\ (Converting \/ (pc = "exited" /\ ~StreamFails))) =>
       /\ text = InArrivalOrder(cli.events)
       /\ cli.events[Len(cli.events)].k = "end"
       /\ proc.consumed = Len(cli.events)
  /\ (proc.listening /\ StreamFails) =>
       /\ ~Converting
       /\ parsed = Undef /\ report = NoReport /\ output = NoText
       /\ proc.stdout = NoOutput /\ proc.file = NoOutput
       /\ pc = "exited" => (proc.exitCode = 1 /\ proc.stderr = <<"Failed to read from stdin">>)
  /\ InputPathGiven => (~proc.listening /\ proc.chunks = <<>> /\ proc.consumed = 0)
  /\ pc = "exited" => (proc.exited /\ proc.exitCode \in {0, 1})

\* C27 (amended): when --input is not given, or given as the empty string,
\* and the standard input is piped, the text handed to the converter is
\* the concatenation, in arrival order, of every chunk received, and the
\* conversion starts only after the end event; a stream error before the
\* end leads to exit code 1 with no conversion and no output; the CLI
\* reaches a final state whenever the standard input ends or fails; and
\* when --input is given with a non-empty path the standard input is never
\* read
C27_StdinRead == [](StdinHandedOver) /\ <>(pc = "exited")

\* C27 as claimed: whenever --input is given the standard input is never read
C27_AsClaimed == cli.input # Undef => ~proc.listening

C27_Witness ==
  /\ pc = "exited"
  /\ proc.listening
  /\ Len(proc.chunks) = 3
  /\ proc.chunks[1] # proc.chunks[3]
  /\ text = proc.chunks[1] \o proc.chunks[2] \o proc.chunks[3]
  /\ proc.exitCode = 0
  /\ proc.stdout # NoOutput

\* a step of the loop on a diagnostic whose identifier has a descriptor
\* leaves the rules list as it is, and any step only adds at its end
RulesKept ==
  (pc = "loop" /\ pc' = "loop") =>
    /\ Len(rules') >= Len(rules)
    /\ SubSeq(rules', 1, Len(rules)) = rules
    /\ (processed' = processed + 1
        /\ \E i \in 1..Len(rules) : rules[i].id = ExpectedRuleId(report.diagnostics[processed + 1]))
         => rules' = rules

\* helpUri and help.text of a descriptor are those of the first diagnostic
\* carrying the identifier, and are missing when that diagnostic has none
DescriptorFromFirst ==
  /\ pc \in {"loop", "done"} =>
       \A i \in 1..Len(rules) :
         LET first == report.diagnostics[FirstSeen(rules[i].id)] IN
         /\ "helpUri" \in DOMAIN rules[i] => first.url = Str(rules[i].helpUri)
         /\ "help" \in DOMAIN rules[i] => first.help = Str(rules[i].help.text)
         /\ first.url = Undef => "helpUri" \notin DOMAIN rules[i]
         /\ first.help = Undef => "help" \notin DOMAIN rules[i]
  /\ pc = "done" => LogRules = rules

\* C28: once a rule descriptor is registered for an identifier, a later
\* diagnostic with the same identifier leaves it and the whole rules list
\* unchanged: helpUri and help.text come only from the first diagnostic
\* carrying the identifier, also when that one had no url or help and a
\* later one has them
C28_DescriptorFrozen == [](DescriptorFromFirst) /\ [][RulesKept]_vars

C28_Witness ==
  /\ pc = "done"
  /\ Len(report.diagnostics) = 2
  /\ report.diagnostics[1].code = sR
  /\ report.diagnostics[1].url = Undef
  /\ report.diagnostics[1].help = Undef
  /\ report.diagnostics[2].code = sR
  /\ report.diagnostics[2].url = Str(sU)
  /\ report.diagnostics[2].help = Str(sH)
  /\ LogRules = <<[id |-> sR, shortDescription |-> [text |-> sR]]>>

\* the Report r with other causes, related entries, span offsets and metadata
Vary(r, causes, related, offset, metadata) ==
  [diagnostics |->
     [i \in 1..Len(r.diagnostics) |->
        [r.diagnostics[i] EXCEPT
           !.causes = causes,
           !.related = related,
           !.labels = [j \in 1..Len(@) |-> [@[j] EXCEPT !.span.offset = offset]]]],
   number_of_files |-> metadata,
   number_of_rules |-> metadata,
   threads_count |-> metadata,
   start_time |-> metadata]

\* Reports that differ from r only in causes, related, span offsets or metadata
Variants(r) ==
  {Vary(r, causes, related, offset, metadata) :
     causes \in {<<>>, <<sM, sH>>},
     related \in {<<>>, <<[message |-> Str(sM), labels |-> Arr(<<[span |-> SpanDefaults, label |-> Undef]>>)]>>},
     offset \in {Num(9), NaN},
     metadata \in {Num(7), NaN}}

\* C29: the log convertToSarif returns depends only on toolVersion and, per
\* diagnostic, on code, severity, message, help, url, filename and the
\* labels' line, column, length and label text: a Report that differs from
\* the converted one only in causes, related, span offsets or the metadata
\* fields gives an equal log
C29_LogIgnoresOtherFields ==
  pc = "done" =>
    /\ log = LogAlone(report, toolVersion)
    /\ \A other \in Variants(report) : LogAlone(other, toolVersion) = log

C29_Witness ==
  /\ pc = "done"
  /\ Len(report.diagnostics) = 1
  /\ Len(report.diagnostics[1].labels) = 4
  /\ Len(report.diagnostics[1].causes) = 6
  /\ Len(report.diagnostics[1].related) = 5
  /\ report.diagnostics[1].labels[1].span.offset = Num(0)
  /\ report \notin Variants(report)
  /\ "relatedLocations" \in DOMAIN log.runs[1].results[1]
  /\ \A other \in Variants(report) : LogAlone(other, toolVersion) = log

\* the results of the log
LogResults == log.runs[1].results

\* the diagnostics whose code is empty or the literal "UnknownRule"
UnknownRuleDiagnostics == {i \in 1..Len(report.diagnostics) : report.diagnostics[i].code \in {<<>>, UnknownRule}}

\* C30: a diagnostic whose code is empty and one whose code is the literal
\* "UnknownRule" are registered under one and the same rule descriptor and
\* get the same ruleId and ruleIndex; no rule descriptor and no result
\* ever has the empty string as its rule identifier
C30_UnknownRuleShared ==
  /\ pc \in {"loop", "done"} =>
       /\ \A i \in 1..Len(rules) : rules[i].id # <<>>
       /\ \A i \in 1..Len(results) : results[i].ruleId # <<>>
       /\ <<>> \notin DOMAIN ruleIndexMap
  /\ pc = "done" =>
       /\ \A i \in 1..Len(LogRules) : LogRules[i].id # <<>>
       /\ \A i \in 1..Len(LogResults) : LogResults[i].ruleId # <<>>
       /\ Cardinality({i \in 1..Len(LogRules) : LogRules[i].id = UnknownRule})
            = (IF UnknownRuleDiagnostics = {} THEN 0 ELSE 1)
       /\ \A i \in UnknownRuleDiagnostics :
            /\ LogResults[i].ruleId = UnknownRule
            /\ LogRules[LogResults[i].ruleIndex + 1].id = UnknownRule
            /\ \A j \in UnknownRuleDiagnostics : LogResults[j].ruleIndex = LogResults[i].ruleIndex

C30_Witness ==
  /\ pc = "done"
  /\ Len(report.diagnostics) = 3
  /\ report.diagnostics[1].code = sR
  /\ report.diagnostics[2].code = <<>>
  /\ report.diagnostics[3].code = UnknownRule
  /\ Len(LogRules) = 2
  /\ LogResults[2].ruleIndex = 1
  /\ LogResults[3].ruleIndex = 1
  /\ LogResults[2].ruleId = LogResults[3].ruleId

=============================================================================
